---- MODULE Spec2Model ----
(***************************************************************************)
(* Model of the SOW/LOE validation engine                                  *)
(* (backend/services/validator_service.py, backend/models/schemas.py).     *)
(*                                                                         *)
(* Texts are TLA+ strings; lower-casing, concatenation and the substring   *)
(* test are computed character by character.  Python floats are modelled   *)
(* as exact rationals <<numerator, denominator>> in lowest terms.  Python  *)
(* object identity is modelled by an id field on SOWTask and LOEEntry.     *)
(* The three rapidfuzz measures are functions of their two arguments that  *)
(* are fixed for a whole behaviour (variable fuzz, chosen in Init), equal  *)
(* to 100 on identical arguments.                                          *)
(***************************************************************************)
EXTENDS Integers, Sequences, FiniteSets, TLC

VARIABLES
    complexity_keywords,  \* ValidatorService.complexity_keywords (engine)
    match_threshold,      \* ValidatorService.match_threshold (engine)
    fuzz,                 \* rapidfuzz: ratio, partial_ratio, token_sort_ratio
    clock,                \* last value read from datetime.now()
    pc,                   \* per call: position in validate
    sow_tasks,            \* per call: argument sow_tasks
    loe_entries,          \* per call: argument loe_entries
    used_loe_indices,     \* per call frame of _match_tasks: used_loe_indices
    task_matches,         \* per call: matches / task_matches
    orphaned,             \* per call: orphaned
    cursor,               \* per call: position of the running for loop
    result,               \* per call: the returned ValidationResponse
    doc_table,            \* a table of a SOW document given to the extraction
    table_tasks,          \* the list the table extraction returned
    file_registry,        \* routers.validation._file_registry, with the files
    request,              \* the ValidationRequest of POST /validate
    handler,              \* position in validate_sow_loe
    parsed,               \* locals sow_tasks and loe_entries of validate_sow_loe
    response,             \* the HTTP response of POST /validate
    uuids                 \* the ids uuid.uuid4() gave upload_file, with "file saved"

\* the state of the engine and of its calls
engine == <<complexity_keywords, match_threshold, fuzz, clock, pc, sow_tasks,
            loe_entries, used_loe_indices, task_matches, orphaned, cursor, result>>

\* the state of the document parser and of the /validate endpoint
endpoint == <<doc_table, table_tasks, file_registry, request, handler, parsed,
              response, uuids>>

vars == <<engine, endpoint>>

-----------------------------------------------------------------------------
(* Bounds of the model *)

MaxSow == 2
MaxLoe == 2
MaxClock == 1
ConcMaxSow == 1
ConcMaxLoe == 1

Calls == {1, 2}

\* Python None: an absent object or number, and an absent str
None == <<>>
NoneStr == "None"

-----------------------------------------------------------------------------
(* Exact rational arithmetic standing for Python floats *)

Abs(n) == IF n < 0 THEN -n ELSE n

RECURSIVE GCD(_, _)
GCD(a, b) == IF b = 0 THEN a ELSE GCD(b, a % b)

Rat(n, d) ==
    LET g == GCD(Abs(n), Abs(d))
        s == IF d < 0 THEN -1 ELSE 1
    IN  <<(s * n) \div g, (s * d) \div g>>

Dec(tenths) == Rat(tenths, 10)
Int2Rat(n) == <<n, 1>>
RMul(a, b) == Rat(a[1] * b[1], a[2] * b[2])
RDiv(a, b) == Rat(a[1] * b[2], a[2] * b[1])
RAdd(a, b) == Rat(a[1] * b[2] + b[1] * a[2], a[2] * b[2])
RSub(a, b) == Rat(a[1] * b[2] - b[1] * a[2], a[2] * b[2])
RLt(a, b) == a[1] * b[2] < b[1] * a[2]
RGt(a, b) == RLt(b, a)
RZero == <<0, 1>>

RECURSIVE RSum(_)
RSum(s) == IF s = <<>> THEN RZero ELSE RAdd(Head(s), RSum(Tail(s)))

-----------------------------------------------------------------------------
(* Python str operations *)

\* the lower-case letter of each upper-case letter
LowerOf ==
    ("A" :> "a") @@ ("B" :> "b") @@ ("C" :> "c") @@ ("D" :> "d") @@ ("E" :> "e") @@ ("F" :> "f") @@
    ("G" :> "g") @@ ("H" :> "h") @@ ("I" :> "i") @@ ("J" :> "j") @@ ("K" :> "k") @@ ("L" :> "l") @@
    ("M" :> "m") @@ ("N" :> "n") @@ ("O" :> "o") @@ ("P" :> "p") @@ ("Q" :> "q") @@ ("R" :> "r") @@
    ("S" :> "s") @@ ("T" :> "t") @@ ("U" :> "u") @@ ("V" :> "v") @@ ("W" :> "w") @@ ("X" :> "x") @@
    ("Y" :> "y") @@ ("Z" :> "z")

LowerChar(ch) == IF ch \in DOMAIN LowerOf THEN LowerOf[ch] ELSE ch

\* str.lower(), computed letter by letter
RECURSIVE LowerText(_)
LowerText(t) ==
    IF t = "" THEN ""
    ELSE LowerChar(SubSeq(t, 1, 1)) \o LowerText(SubSeq(t, 2, Len(t)))

\* keyword in text, computed position by position
Occurs(keyword, text) ==
    \E k \in 1..(Len(text) - Len(keyword) + 1) :
        SubSeq(text, k, k + Len(keyword) - 1) = keyword

\* f"{a} {b}"
Join(a, b) == a \o " " \o b

-----------------------------------------------------------------------------
(* models/schemas.py *)

\* class ValidationStatus
PASS == "PASS"
WARNING == "WARNING"
FAIL == "FAIL"
ValidationStatus == {PASS, WARNING, FAIL}

\* class MatchStatus
EXACT == "exact"
FUZZY == "fuzzy"
UNMATCHED == "unmatched"
ORPHANED == "orphaned"
MatchStatus == {EXACT, FUZZY, UNMATCHED, ORPHANED}

\* class SOWTask (id stands for the identity of the Python object)
SOWTask(id, phase, task, description, owner) ==
    [id |-> id, phase |-> phase, task |-> task, description |-> description,
     owner |-> owner]

\* class LOEEntry (id stands for the identity of the Python object)
LOEEntry(id, task, phase, days, risk_buffer, total_days) ==
    [id |-> id, task |-> task, phase |-> phase, days |-> days,
     risk_buffer |-> risk_buffer, total_days |-> total_days]

\* LOEEntry.effective_days
effective_days(e) == IF e.total_days # None THEN e.total_days ELSE e.days

\* class ComplexityFactor
ComplexityFactor(keyword, category, multiplier) ==
    [keyword |-> keyword, category |-> category, multiplier |-> multiplier]

\* class TaskMatch, as constructed at the end of one matching iteration:
\* the remaining fields take their declared defaults
TaskMatch(sow_task, loe_entry, match_status, match_score) ==
    [sow_task |-> sow_task, loe_entry |-> loe_entry,
     match_status |-> match_status, match_score |-> match_score,
     complexity_analysis |-> None, duration_valid |-> TRUE,
     duration_variance |-> None, issues |-> <<>>, warnings |-> <<>>]

-----------------------------------------------------------------------------
(* services/validator_service.py: configuration *)

DEFAULT_COMPLEXITY_KEYWORDS ==
    [categories |-> <<
        [name |-> "architecture",
         keywords |-> << <<"high availability", Dec(15)>>, <<"ha", Dec(15)>>,
                         <<"stretched cluster", Dec(20)>>, <<"multi-site", Dec(18)>>,
                         <<"disaster recovery", Dec(15)>>, <<"dr", Dec(15)>>,
                         <<"federation", Dec(14)>>, <<"distributed", Dec(13)>> >>],
        [name |-> "integration",
         keywords |-> << <<"api", Dec(13)>>, <<"api integration", Dec(15)>>,
                         <<"third-party", Dec(14)>>, <<"sso", Dec(13)>>,
                         <<"single sign-on", Dec(13)>>, <<"ldap", Dec(12)>>,
                         <<"active directory", Dec(12)>>, <<"saml", Dec(13)>>,
                         <<"oauth", Dec(13)>> >>],
        [name |-> "scale",
         keywords |-> << <<"enterprise", Dec(15)>>, <<"large scale", Dec(15)>>,
                         <<"1000+ users", Dec(18)>>, <<"5000+ users", Dec(20)>>,
                         <<"high performance", Dec(14)>>, <<"optimization", Dec(13)>> >>],
        [name |-> "security",
         keywords |-> << <<"zero trust", Dec(15)>>, <<"hipaa", Dec(14)>>,
                         <<"pci-dss", Dec(14)>>, <<"pci", Dec(14)>>,
                         <<"compliance", Dec(13)>>, <<"encryption", Dec(12)>>,
                         <<"hardening", Dec(13)>>, <<"security", Dec(12)>> >>],
        [name |-> "migration",
         keywords |-> << <<"migration", Dec(15)>>, <<"cutover", Dec(15)>>,
                         <<"data transfer", Dec(14)>>, <<"upgrade", Dec(13)>>,
                         <<"conversion", Dec(14)>> >>] >>,
     task_type_base_days |-> <<
        <<"installation", Dec(10)>>, <<"configuration", Dec(15)>>,
        <<"integration", Dec(20)>>, <<"migration", Dec(30)>>,
        <<"training", Dec(10)>>, <<"documentation", Dec(5)>>,
        <<"testing", Dec(15)>>, <<"planning", Dec(10)>>,
        <<"design", Dec(20)>>, <<"deployment", Dec(20)>>,
        <<"validation", Dec(10)>> >>]

DefaultMatchThreshold == 70
ExactScore == 95

\* __init__ with match_threshold set to 0
ValidatorServiceZeroThreshold(keywords) ==
    [complexity_keywords |->
        IF keywords = None THEN DEFAULT_COMPLEXITY_KEYWORDS ELSE keywords,
     match_threshold |-> 0]

\* ValidatorService.__init__
ValidatorService(keywords) ==
    [complexity_keywords |->
        IF keywords = None THEN DEFAULT_COMPLEXITY_KEYWORDS ELSE keywords,
     match_threshold |-> DefaultMatchThreshold]

-----------------------------------------------------------------------------
(* Inputs: records as the extraction collaborators produce them *)

\* scope items, before they are given an identity
SowPool ==
    { [phase |-> "General", task |-> "Install HA cluster",
       description |-> "deploy stretched cluster with high availability",
       owner |-> "TeraSky"],
      [phase |-> "Migration", task |-> "Data migration",
       description |-> "Data migration with encryption", owner |-> "TeraSky"] }

\* estimate rows, before they are given an identity
LoePool ==
    { [task |-> "Install HA cluster", phase |-> NoneStr, days |-> Int2Rat(10),
       risk_buffer |-> None, total_days |-> None],
      [task |-> "Travel", phase |-> NoneStr, days |-> Rat(1, 2),
       risk_buffer |-> None, total_days |-> RZero],
      [task |-> "Travel", phase |-> "Overhead", days |-> Int2Rat(2),
       risk_buffer |-> Int2Rat(1), total_days |-> Int2Rat(3)] }

-----------------------------------------------------------------------------
(* str.lower() and "keyword in text" on the texts of the input records and *)
(* the keywords of the default taxonomy are evaluated once and looked up   *)

KnownTexts ==
    UNION {{s.task, s.description, Join(s.task, s.description)} : s \in SowPool}
        \cup {e.task : e \in LoePool}

LowerTable == [t \in KnownTexts |-> LowerText(t)] @@ <<>>

lower(t) == IF t \in KnownTexts THEN LowerTable[t] ELSE LowerText(t)

KnownKeywords ==
    UNION {{DEFAULT_COMPLEXITY_KEYWORDS.categories[k].keywords[j][1] :
                j \in 1..Len(DEFAULT_COMPLEXITY_KEYWORDS.categories[k].keywords)} :
            k \in 1..Len(DEFAULT_COMPLEXITY_KEYWORDS.categories)}
        \cup {DEFAULT_COMPLEXITY_KEYWORDS.task_type_base_days[k][1] :
                k \in 1..Len(DEFAULT_COMPLEXITY_KEYWORDS.task_type_base_days)}

KeywordsIn ==
    [t \in {LowerText(u) : u \in KnownTexts} |->
        {w \in KnownKeywords : Occurs(w, t)}] @@ <<>>

In(keyword, text) ==
    IF text \in DOMAIN KeywordsIn /\ keyword \in KnownKeywords
    THEN keyword \in KeywordsIn[text]
    ELSE Occurs(keyword, text)

-----------------------------------------------------------------------------
(* rapidfuzz.fuzz: each measure is a function of its two arguments, read   *)
(* from the variable fuzz; identical arguments score 100                   *)

fuzz_ratio(a, b) == IF a = b THEN 100 ELSE fuzz.ratio[<<a, b>>]
fuzz_partial_ratio(a, b) == IF a = b THEN 100 ELSE fuzz.partial_ratio[<<a, b>>]
fuzz_token_sort_ratio(a, b) ==
    IF a = b THEN 100 ELSE fuzz.token_sort_ratio[<<a, b>>]

Max2(a, b) == IF a >= b THEN a ELSE b

\* max(scores)
MaxOf(scores) == Max2(scores[1], Max2(scores[2], scores[3]))

-----------------------------------------------------------------------------
(* ValidatorService._match_tasks *)

\* the three matching strategies and their maximum, for one pair
Score(sow_task, loe_entry) ==
    LET sow_text == lower(Join(sow_task.task, sow_task.description))
        loe_text == lower(loe_entry.task)
        scores == << fuzz_ratio(lower(sow_task.task), loe_text),
                     fuzz_partial_ratio(lower(sow_task.task), loe_text),
                     fuzz_token_sort_ratio(sow_text, loe_text) >>
    IN  MaxOf(scores)

\* Better with "score >= best_score"
BetterOrEqual(score, best_score) == score >= best_score

\* score > best_score
Better(score, best_score) == score > best_score

\* the inner loop over enumerate(loe_entries), from 0-based position idx on;
\* best holds best_match, best_score, best_idx
RECURSIVE ScanEntries(_, _, _, _, _)
ScanEntries(sow_task, entries, used, idx, best) ==
    IF idx >= Len(entries) THEN best
    ELSE IF idx \in used
         THEN ScanEntries(sow_task, entries, used, idx + 1, best)
         ELSE LET loe_entry == entries[idx + 1]
                  score == Score(sow_task, loe_entry)
              IN  IF Better(score, best.best_score)
                  THEN ScanEntries(sow_task, entries, used, idx + 1,
                                   [best_match |-> loe_entry,
                                    best_score |-> score, best_idx |-> idx])
                  ELSE ScanEntries(sow_task, entries, used, idx + 1, best)

\* BestCandidate with the scan forgetting "if idx in used_loe_indices: continue"
BestCandidateIgnoringUsed(sow_task, entries, used) ==
    ScanEntries(sow_task, entries, {}, 0,
                [best_match |-> None, best_score |-> 0, best_idx |-> -1])

BestCandidate(sow_task, entries, used) ==
    ScanEntries(sow_task, entries, used, 0,
                [best_match |-> None, best_score |-> 0, best_idx |-> -1])

\* Classify with the fuzzy branch forgetting used_loe_indices.add(best_idx)
ClassifyNoConsume(best, used, threshold) ==
    IF best.best_score >= ExactScore
    THEN [match_status |-> EXACT, best_match |-> best.best_match,
          best_score |-> best.best_score, used |-> used \cup {best.best_idx}]
    ELSE IF best.best_score >= threshold
    THEN [match_status |-> FUZZY, best_match |-> best.best_match,
          best_score |-> best.best_score, used |-> used]
    ELSE [match_status |-> UNMATCHED, best_match |-> None,
          best_score |-> 0, used |-> used]

\* Classify with "> self.match_threshold" for ">= self.match_threshold"
ClassifyStrictThreshold(best, used, threshold) ==
    IF best.best_score >= ExactScore
    THEN [match_status |-> EXACT, best_match |-> best.best_match,
          best_score |-> best.best_score, used |-> used \cup {best.best_idx}]
    ELSE IF best.best_score > threshold
    THEN [match_status |-> FUZZY, best_match |-> best.best_match,
          best_score |-> best.best_score, used |-> used \cup {best.best_idx}]
    ELSE [match_status |-> UNMATCHED, best_match |-> None,
          best_score |-> 0, used |-> used]

\* Classify with the unmatched branch forgetting "best_score = 0"
ClassifyKeepScore(best, used, threshold) ==
    IF best.best_score >= ExactScore
    THEN [match_status |-> EXACT, best_match |-> best.best_match,
          best_score |-> best.best_score, used |-> used \cup {best.best_idx}]
    ELSE IF best.best_score >= threshold
    THEN [match_status |-> FUZZY, best_match |-> best.best_match,
          best_score |-> best.best_score, used |-> used \cup {best.best_idx}]
    ELSE [match_status |-> UNMATCHED, best_match |-> None,
          best_score |-> best.best_score, used |-> used]

\* "Determine match status": the match status, the entry and score kept,
\* and the used set after the iteration
Classify(best, used, threshold) ==
    IF best.best_score >= ExactScore
    THEN [match_status |-> EXACT, best_match |-> best.best_match,
          best_score |-> best.best_score, used |-> used \cup {best.best_idx}]
    ELSE IF best.best_score >= threshold
    THEN [match_status |-> FUZZY, best_match |-> best.best_match,
          best_score |-> best.best_score, used |-> used \cup {best.best_idx}]
    ELSE [match_status |-> UNMATCHED, best_match |-> None,
          best_score |-> 0, used |-> used]

\* "Find orphaned LOE entries"
RECURSIVE OrphansFrom(_, _, _)
OrphansFrom(entries, used, idx) ==
    IF idx >= Len(entries) THEN <<>>
    ELSE IF idx \notin used
         THEN <<entries[idx + 1]>> \o OrphansFrom(entries, used, idx + 1)
         ELSE OrphansFrom(entries, used, idx + 1)

Reverse(s) == [k \in 1..Len(s) |-> s[Len(s) + 1 - k]]

\* Orphans with the unconsumed entries collected in the opposite order
OrphansReversed(entries, used) == Reverse(OrphansFrom(entries, used, 0))

Orphans(entries, used) == OrphansFrom(entries, used, 0)

\* Frame with used_loe_indices kept on the engine instance, one set for all
\* the calls
FrameShared(c) == 1

\* used_loe_indices is a local of the running _match_tasks invocation
Frame(c) == c

\* one iteration of "for sow_task in sow_tasks"
MatchTask(c) ==
    /\ pc[c] = "match"
    /\ cursor[c] <= Len(sow_tasks[c])
    /\ LET sow_task == sow_tasks[c][cursor[c]]
           used == used_loe_indices[Frame(c)]
           best == BestCandidate(sow_task, loe_entries[c], used)
           kept == Classify(best, used, match_threshold)
       IN  /\ used_loe_indices' = [used_loe_indices EXCEPT ![Frame(c)] = kept.used]
           /\ task_matches' =
                [task_matches EXCEPT ![c] =
                    Append(@, TaskMatch(sow_task, kept.best_match,
                                        kept.match_status, kept.best_score))]
    /\ cursor' = [cursor EXCEPT ![c] = @ + 1]
    /\ UNCHANGED <<complexity_keywords, match_threshold, fuzz, clock, pc,
                   sow_tasks, loe_entries, orphaned, result>>
    /\ UNCHANGED endpoint

\* the orphan comprehension and the return of _match_tasks into validate
FindOrphans(c) ==
    /\ pc[c] = "match"
    /\ cursor[c] > Len(sow_tasks[c])
    /\ orphaned' = [orphaned EXCEPT ![c] =
                        Orphans(loe_entries[c], used_loe_indices[Frame(c)])]
    /\ pc' = [pc EXCEPT ![c] = "duration"]
    /\ cursor' = [cursor EXCEPT ![c] = 1]
    /\ UNCHANGED <<complexity_keywords, match_threshold, fuzz, clock,
                   sow_tasks, loe_entries, used_loe_indices, task_matches, result>>
    /\ UNCHANGED endpoint

-----------------------------------------------------------------------------
(* ValidatorService._analyze_complexity *)

DefaultBaseDays == Dec(15)
DescriptionLimit == 200

\* DetectType with the last task type found in text winning
RECURSIVE DetectTypeLast(_, _, _)
DetectTypeLast(items, text, k) ==
    IF k > Len(items)
    THEN [detected_type |-> NoneStr, base_days |-> DefaultBaseDays]
    ELSE IF DetectTypeLast(items, text, k + 1).detected_type # NoneStr
         THEN DetectTypeLast(items, text, k + 1)
         ELSE IF In(items[k][1], text)
              THEN [detected_type |-> items[k][1], base_days |-> items[k][2]]
              ELSE DetectTypeLast(items, text, k + 1)

\* "Detect task type": the first (task_type, days) item whose name is in text
RECURSIVE DetectType(_, _, _)
DetectType(items, text, k) ==
    IF k > Len(items)
    THEN [detected_type |-> NoneStr, base_days |-> DefaultBaseDays]
    ELSE IF In(items[k][1], text)
         THEN [detected_type |-> items[k][1], base_days |-> items[k][2]]
         ELSE DetectType(items, text, k + 1)

\* CategoryFactor with the last keyword found in text winning
RECURSIVE CategoryFactorLast(_, _, _, _)
CategoryFactorLast(category, keywords, text, k) ==
    IF k > Len(keywords) THEN <<>>
    ELSE IF CategoryFactorLast(category, keywords, text, k + 1) # <<>>
         THEN CategoryFactorLast(category, keywords, text, k + 1)
         ELSE IF In(keywords[k][1], text)
              THEN <<ComplexityFactor(keywords[k][1], category, keywords[k][2])>>
              ELSE <<>>

\* the keyword loop of one category: the first keyword in text, then break
RECURSIVE CategoryFactor(_, _, _, _)
CategoryFactor(category, keywords, text, k) ==
    IF k > Len(keywords) THEN <<>>
    ELSE IF In(keywords[k][1], text)
         THEN <<ComplexityFactor(keywords[k][1], category, keywords[k][2])>>
         ELSE CategoryFactor(category, keywords, text, k + 1)

\* "Find complexity factors": the loop over the categories
RECURSIVE FindFactors(_, _, _)
FindFactors(categories, text, k) ==
    IF k > Len(categories) THEN <<>>
    ELSE CategoryFactor(categories[k].name, categories[k].keywords, text, 1)
            \o FindFactors(categories, text, k + 1)

\* TotalMultiplier taking the greatest multiplier instead of the product
RECURSIVE TotalMultiplierMax(_)
TotalMultiplierMax(factors) ==
    IF factors = <<>> THEN Int2Rat(1)
    ELSE IF RGt(Head(factors).multiplier, TotalMultiplierMax(Tail(factors)))
         THEN Head(factors).multiplier
         ELSE TotalMultiplierMax(Tail(factors))

\* "Calculate total multiplier (multiplicative)"
RECURSIVE TotalMultiplier(_)
TotalMultiplier(factors) ==
    IF factors = <<>> THEN Int2Rat(1)
    ELSE RMul(Head(factors).multiplier, TotalMultiplier(Tail(factors)))

\* the reasoning sentence, by its parts (the number rendering is left out)
Reasoning(detected_type, factors, total_multiplier) ==
    LET shown == IF detected_type = NoneStr THEN "general" ELSE detected_type
    IN  IF factors # <<>>
        THEN <<"Task type", shown, "Complexity factors detected",
               [k \in 1..Len(factors) |-> factors[k].keyword],
               "Combined multiplier", total_multiplier>>
        ELSE <<"Task type", shown, "No significant complexity factors detected">>

\* description[:200]
Truncate(text, limit) ==
    IF Len(text) <= limit THEN text ELSE SubSeq(text, 1, limit)

\* "return ComplexityAnalysis(...)", with the expected range computed from
\* base_days and total_multiplier
AnalysisOf(description, type, factors, total_multiplier) ==
    [task_description |-> Truncate(description, DescriptionLimit),
     detected_task_type |-> type.detected_type,
     base_days |-> type.base_days,
     complexity_factors |-> factors,
     total_multiplier |-> total_multiplier,
     expected_days_min |-> RMul(RMul(type.base_days, total_multiplier), Dec(8)),
     expected_days_max |-> RMul(RMul(type.base_days, total_multiplier), Dec(15)),
     reasoning |-> Reasoning(type.detected_type, factors, total_multiplier)]

\* the function from "Calculate total multiplier" on
AnalysisWith(description, type, factors) ==
    AnalysisOf(description, type, factors, TotalMultiplier(factors))

\* the function from "Detect task type" on, text being the lowered text
AnalysisOn(keywords, description, text) ==
    AnalysisWith(description,
                 DetectType(keywords.task_type_base_days, text, 1),
                 FindFactors(keywords.categories, text, 1))

_analyze_complexity(keywords, description, task_name) ==
    AnalysisOn(keywords, description, lower(Join(task_name, description)))

-----------------------------------------------------------------------------
(* ValidatorService.validate: "Analyze complexity and validate durations" *)

\* Python truth value of an optional float: neither None nor 0.0
Truthy(x) == x # None /\ x # RZero

\* a or b, on optional floats
Or(a, b) == IF Truthy(a) THEN a ELSE b

\* ValidateDuration that also stores the effort it used back into the entry
ValidateDurationStoringDays(keywords, match) ==
    IF match.loe_entry = None THEN match
    ELSE
    LET analysis == _analyze_complexity(keywords, match.sow_task.description,
                                        match.sow_task.task)
        actual_days == Or(match.loe_entry.total_days, match.loe_entry.days)
    IN  [match EXCEPT !.complexity_analysis = analysis,
                      !.loe_entry.total_days = actual_days]

\* CheckReasonable with the over-estimation message appended to issues
CheckReasonableIssuesOnly(measured, analysis, actual_days) ==
    IF RLt(actual_days, RMul(analysis.expected_days_min, Dec(5)))
    THEN [measured EXCEPT
            !.duration_valid = FALSE,
            !.issues = Append(@, <<"Duration significantly under-estimated",
                                   actual_days, analysis.expected_days_min,
                                   analysis.expected_days_max>>)]
    ELSE IF RGt(actual_days, RMul(analysis.expected_days_max, Dec(15)))
    THEN [measured EXCEPT
            !.duration_valid = FALSE,
            !.issues = Append(@, <<"Duration may be over-estimated",
                                   actual_days, analysis.expected_days_min,
                                   analysis.expected_days_max>>)]
    ELSE measured

\* "Check if duration is reasonable", on a match whose variance is stored
CheckReasonable(measured, analysis, actual_days) ==
    IF RLt(actual_days, RMul(analysis.expected_days_min, Dec(5)))
    THEN [measured EXCEPT
            !.duration_valid = FALSE,
            !.issues = Append(@, <<"Duration significantly under-estimated",
                                   actual_days, analysis.expected_days_min,
                                   analysis.expected_days_max>>)]
    ELSE IF RGt(actual_days, RMul(analysis.expected_days_max, Dec(15)))
    THEN [measured EXCEPT
            !.duration_valid = FALSE,
            !.warnings = Append(@, <<"Duration may be over-estimated",
                                     actual_days, analysis.expected_days_min,
                                     analysis.expected_days_max>>)]
    ELSE measured

\* CheckVariance that records the variance only of a duration judged valid
CheckVarianceValidOnly(analysed, analysis, actual_days, expected_mid) ==
    IF ~RGt(expected_mid, RZero) THEN analysed
    ELSE IF CheckReasonable(analysed, analysis, actual_days).duration_valid
    THEN [analysed EXCEPT !.duration_variance =
                RMul(RDiv(RSub(actual_days, expected_mid), expected_mid),
                     Int2Rat(100))]
    ELSE CheckReasonable(analysed, analysis, actual_days)

\* "if expected_mid > 0" and the variance, on a match whose analysis is stored
CheckVariance(analysed, analysis, actual_days, expected_mid) ==
    IF ~RGt(expected_mid, RZero) THEN analysed
    ELSE CheckReasonable(
            [analysed EXCEPT !.duration_variance =
                RMul(RDiv(RSub(actual_days, expected_mid), expected_mid),
                     Int2Rat(100))],
            analysis, actual_days)

\* "Validate duration", from the analysis of the match
CheckDuration(match, analysis, actual_days) ==
    CheckVariance([match EXCEPT !.complexity_analysis = analysis], analysis,
                  actual_days,
                  RDiv(RAdd(analysis.expected_days_min,
                            analysis.expected_days_max), Int2Rat(2)))

\* the body of "for match in task_matches" for one match
ValidateDuration(keywords, match) ==
    IF match.loe_entry = None THEN match
    ELSE CheckDuration(match,
                       _analyze_complexity(keywords, match.sow_task.description,
                                           match.sow_task.task),
                       Or(match.loe_entry.total_days, match.loe_entry.days))

\* one iteration of "for match in task_matches"
DurationStep(c) ==
    /\ pc[c] = "duration"
    /\ cursor[c] <= Len(task_matches[c])
    /\ task_matches' =
         [task_matches EXCEPT ![c][cursor[c]] =
             ValidateDuration(complexity_keywords, @)]
    /\ cursor' = [cursor EXCEPT ![c] = @ + 1]
    /\ UNCHANGED <<complexity_keywords, match_threshold, fuzz, clock, pc,
                   sow_tasks, loe_entries, used_loe_indices, orphaned, result>>
    /\ UNCHANGED endpoint

-----------------------------------------------------------------------------
(* ValidatorService.validate: "Calculate summary statistics" to the return *)

Count(s, Keep(_)) == Len(SelectSeq(s, Keep))

IsUnmatched(m) == m.match_status = UNMATCHED
\* IsMatched counting the exact matches only
IsMatchedExact(m) == m.match_status = EXACT
IsMatched(m) == m.match_status # UNMATCHED
HasEntry(m) == m.loe_entry # None
HasAnalysis(m) == m.complexity_analysis # None
DurationInvalid(m) == ~m.duration_valid
\* UnderEstimated counting only the durations judged valid
UnderEstimatedWhenValid(m) ==
    /\ m.duration_valid
    /\ Truthy(m.duration_variance) /\ RLt(m.duration_variance, Int2Rat(-30))
UnderEstimated(m) ==
    Truthy(m.duration_variance) /\ RLt(m.duration_variance, Int2Rat(-30))
\* OverEstimated read off the verdict of the duration step, not the variance
OverEstimatedInvalid(m) == ~m.duration_valid /\ m.warnings # <<>>
OverEstimated(m) ==
    Truthy(m.duration_variance) /\ RGt(m.duration_variance, Int2Rat(50))

EntryDays(e) == Or(e.total_days, e.days)
MatchDays(m) == EntryDays(m.loe_entry)
\* ExpectedMid taking the upper end of the range for its middle
ExpectedMidUpper(m) == m.complexity_analysis.expected_days_max

ExpectedMid(m) ==
    RDiv(RAdd(m.complexity_analysis.expected_days_min,
              m.complexity_analysis.expected_days_max), Int2Rat(2))

Map(s, Op(_)) == [k \in 1..Len(s) |-> Op(s[k])]

\* StatusOf with warnings failing the result too
StatusOfWarningsFail(critical_issues, warnings) ==
    IF critical_issues # <<>> \/ warnings # <<>> THEN FAIL ELSE PASS

\* the status decided from the two top-level lists
StatusOf(critical_issues, warnings) ==
    IF critical_issues # <<>> THEN FAIL
    ELSE IF warnings # <<>> THEN WARNING
    ELSE PASS

\* validate, from the summary statistics on, as a function of what the
\* loops left and of the time read at the return
Summarize(sow, loe, matches, orphans, customer_name, project_name, time) ==
    LET matched_count == Count(matches, IsMatched)
        unmatched_count == Count(matches, IsUnmatched)
        total_loe_days ==
            RAdd(RSum(Map(SelectSeq(matches, HasEntry), MatchDays)),
                 RSum(Map(orphans, EntryDays)))
        total_expected_days ==
            RSum(Map(SelectSeq(matches, HasAnalysis), ExpectedMid))
        total_variance ==
            IF RGt(total_expected_days, RZero)
            THEN RMul(RDiv(RSub(total_loe_days, total_expected_days),
                           total_expected_days), Int2Rat(100))
            ELSE RZero
        critical_issues ==
            IF unmatched_count > 0
            THEN << <<unmatched_count, "SOW task(s) have no matching LOE entry">> >>
            ELSE <<>>
        duration_issues == Count(matches, DurationInvalid)
        warnings ==
            (IF orphans # <<>>
             THEN << <<Len(orphans), "LOE entries have no matching SOW task">> >>
             ELSE <<>>)
            \o (IF duration_issues > 0
                THEN << <<duration_issues, "task(s) have duration concerns">> >>
                ELSE <<>>)
        recommendations ==
            (IF unmatched_count > 0
             THEN <<"Add LOE entries for unmatched SOW tasks">> ELSE <<>>)
            \o (IF \E k \in 1..Len(matches) : UnderEstimated(matches[k])
                THEN <<"Review under-estimated tasks">> ELSE <<>>)
            \o (IF \E k \in 1..Len(matches) : OverEstimated(matches[k])
                THEN <<"Review over-estimated tasks">> ELSE <<>>)
            \o (IF orphans # <<>>
                THEN <<"Clarify orphaned LOE entries">> ELSE <<>>)
    IN  [status |-> StatusOf(critical_issues, warnings),
         customer_name |-> customer_name,
         project_name |-> project_name,
         total_sow_tasks |-> Len(sow),
         total_loe_entries |-> Len(loe),
         matched_tasks |-> matched_count,
         unmatched_sow_tasks |-> unmatched_count,
         orphaned_loe_entries |-> Len(orphans),
         total_sow_expected_days |-> total_expected_days,
         total_loe_days |-> total_loe_days,
         total_variance_percent |-> total_variance,
         task_matches |-> matches,
         orphaned_entries |-> orphans,
         sow_tasks |-> sow,
         critical_issues |-> critical_issues,
         warnings |-> warnings,
         recommendations |-> recommendations,
         report_path |-> NoneStr,
         validation_timestamp |-> time]

\* _match_tasks run from its first line to its return
RECURSIVE MatchFrom(_, _, _, _, _)
MatchFrom(sow, loe, k, used, matches) ==
    IF k > Len(sow) THEN [matches |-> matches, orphaned |-> Orphans(loe, used)]
    ELSE LET best == BestCandidate(sow[k], loe, used)
             kept == Classify(best, used, match_threshold)
         IN  MatchFrom(sow, loe, k + 1, kept.used,
                       Append(matches, TaskMatch(sow[k], kept.best_match,
                                                 kept.match_status,
                                                 kept.best_score)))

_match_tasks(sow, loe) == MatchFrom(sow, loe, 1, {}, <<>>)

\* validate run alone from its first line to its return, the clock read
\* giving time
validate(sow, loe, customer_name, project_name, time) ==
    LET found == _match_tasks(sow, loe)
        judged == [k \in 1..Len(found.matches) |->
                    ValidateDuration(complexity_keywords, found.matches[k])]
    IN  Summarize(sow, loe, judged, found.orphaned, customer_name,
                  project_name, time)

\* the rest of validate after the duration loop; datetime.now() reads a
\* clock that never runs backwards
Aggregate(c) ==
    /\ pc[c] = "duration"
    /\ cursor[c] > Len(task_matches[c])
    /\ \E time \in clock..MaxClock :
        /\ clock' = time
        /\ result' = [result EXCEPT ![c] =
                        Summarize(sow_tasks[c], loe_entries[c], task_matches[c],
                                  orphaned[c], "Customer", "Project", time)]
    /\ pc' = [pc EXCEPT ![c] = "done"]
    /\ UNCHANGED <<complexity_keywords, match_threshold, fuzz, sow_tasks,
                   loe_entries, used_loe_indices, task_matches, orphaned, cursor>>
    /\ UNCHANGED endpoint

-----------------------------------------------------------------------------
(* Input lists and the rapidfuzz tables tried *)

SeqsUpTo(S, n) == UNION {[1..k -> S] : k \in 0..n}

\* the i-th record of a parsed list is a fresh object: identity = position
SowList(s) ==
    [k \in 1..Len(s) |->
        SOWTask(k, s[k].phase, s[k].task, s[k].description, s[k].owner)]
LoeList(s) ==
    [k \in 1..Len(s) |->
        LOEEntry(k, s[k].task, s[k].phase, s[k].days, s[k].risk_buffer,
                 s[k].total_days)]

SowLists(n) == {SowList(s) : s \in SeqsUpTo(SowPool, n)}
LoeLists(n) == {LoeList(s) : s \in SeqsUpTo(LoePool, n)}

\* the values of <<ratio, partial_ratio, token_sort_ratio>> tried for a pair
\* of different task names, and for a pair of equal task names
MeasureTriples == {<<0, 0, 0>>, <<69, 50, 0>>, <<50, 70, 69>>, <<69, 70, 95>>}
SameTextTriples == {<<100, 100, 69>>}

FuzzCells == {<<s, lower(e.task)>> : s \in SowPool, e \in LoePool}
CellTriples(cell) ==
    IF lower(cell[1].task) = cell[2] THEN SameTextTriples ELSE MeasureTriples

\* the three measures as tables over the arguments the matcher passes
FuzzFrom(f) ==
    [ratio |->
        [key \in {<<lower(cell[1].task), cell[2]>> : cell \in FuzzCells} |->
            LET cell == CHOOSE cell \in FuzzCells :
                            <<lower(cell[1].task), cell[2]>> = key
            IN  f[cell][1]],
     partial_ratio |->
        [key \in {<<lower(cell[1].task), cell[2]>> : cell \in FuzzCells} |->
            LET cell == CHOOSE cell \in FuzzCells :
                            <<lower(cell[1].task), cell[2]>> = key
            IN  f[cell][2]],
     token_sort_ratio |->
        [key \in {<<lower(Join(cell[1].task, cell[1].description)), cell[2]>> :
                    cell \in FuzzCells} |->
            LET cell == CHOOSE cell \in FuzzCells :
                <<lower(Join(cell[1].task, cell[1].description)), cell[2]>> = key
            IN  f[cell][3]]]

FuzzChoices(triples) ==
    {FuzzFrom(f) : f \in {g \in [FuzzCells -> triples \cup SameTextTriples] :
                            \A cell \in FuzzCells :
                                g[cell] \in CellTriples(cell)}}

-----------------------------------------------------------------------------
(* Specifications *)

\* no document is being parsed and no request is being served
NoRequest ==
    /\ doc_table = None
    /\ table_tasks = None
    /\ file_registry = <<>>
    /\ request = None
    /\ handler = "idle"
    /\ parsed = None
    /\ response = None
    /\ uuids = {}

\* one engine instance; the calls in active are about to run validate
InitWith(active, fuzzes, sowLists, loeLists) ==
    /\ complexity_keywords = ValidatorService(None).complexity_keywords
    /\ match_threshold = ValidatorService(None).match_threshold
    /\ fuzz \in fuzzes
    /\ clock = 0
    /\ pc = [c \in Calls |-> IF c \in active THEN "match" ELSE "idle"]
    /\ sow_tasks \in [Calls -> sowLists]
    /\ loe_entries \in [Calls -> loeLists]
    /\ \A c \in Calls \ active : sow_tasks[c] = <<>> /\ loe_entries[c] = <<>>
    /\ used_loe_indices = [c \in Calls |-> {}]
    /\ task_matches = [c \in Calls |-> <<>>]
    /\ orphaned = [c \in Calls |-> <<>>]
    /\ cursor = [c \in Calls |-> 1]
    /\ result = [c \in Calls |-> None]
    /\ NoRequest

Init ==
    InitWith({1}, FuzzChoices(MeasureTriples), SowLists(MaxSow), LoeLists(MaxLoe))

Next ==
    \E c \in Calls :
        \/ MatchTask(c)
        \/ FindOrphans(c)
        \/ DurationStep(c)
        \/ Aggregate(c)

Spec == Init /\ [][Next]_vars

\* two calls of validate on one engine instance, their steps interleaved in
\* any order; each call has its own input lists
ConcSowLists ==
    {l \in SowLists(ConcMaxSow) : \A k \in 1..Len(l) : l[k].phase = "Migration"}
ConcLoeLists ==
    {l \in LoeLists(ConcMaxLoe) : \A k \in 1..Len(l) : l[k].phase = NoneStr}
ConcTriples == {<<69, 50, 0>>, <<50, 70, 69>>}

InitConc ==
    InitWith(Calls, FuzzChoices(ConcTriples), ConcSowLists, ConcLoeLists)

SpecConc == InitConc /\ [][Next]_vars

-----------------------------------------------------------------------------
(* Vocabulary of the properties *)

Running == {c \in Calls : pc[c] # "idle"}
Matched(c) == pc[c] \in {"duration", "done"}
Done(c) == pc[c] = "done"

Positions(c) == 1..Len(loe_entries[c])
Items(c) == 1..Len(task_matches[c])

\* the items whose TaskMatch holds the entry at position p, and the places
\* of that entry in the orphan list
RefsTo(c, p) == {k \in Items(c) : task_matches[c][k].loe_entry = loe_entries[c][p]}
OrphanPlaces(c, p) ==
    {k \in 1..Len(orphaned[c]) : orphaned[c][k] = loe_entries[c][p]}

SetMax(S) == CHOOSE x \in S : \A y \in S : y <= x

\* the positions of entries not in a used set (of 0-based indices), the
\* greatest score of a scope item over them (0 when there is none), and the
\* positions that attain it
Free(c, used) == {p \in Positions(c) : (p - 1) \notin used}
TopScore(c, sow_task, used) ==
    SetMax({0} \cup {Score(sow_task, loe_entries[c][p]) : p \in Free(c, used)})
TopPositions(c, sow_task, used) ==
    LET top == TopScore(c, sow_task, used)
    IN  {p \in Free(c, used) : Score(sow_task, loe_entries[c][p]) = top}

\* the used set as it stood when item k was taken up: the entries attached
\* to the earlier items
UsedBefore(c, k) ==
    {p - 1 : p \in {q \in Positions(c) : \E h \in 1..(k - 1) : h \in RefsTo(c, q)}}

-----------------------------------------------------------------------------
(* C1: after _match_tasks, every entry position is referenced by exactly   *)
(* one TaskMatch or occurs exactly once in the orphan list, never both and *)
(* never neither; and in the returned result                               *)
(* total_loe_entries = matched_tasks + orphaned_loe_entries.               *)
C1_EntryPartition ==
    \A c \in Running :
        /\ Matched(c) =>
            \A p \in Positions(c) :
                Cardinality(RefsTo(c, p)) + Cardinality(OrphanPlaces(c, p)) = 1
        /\ Done(c) =>
            /\ result[c].total_loe_entries =
                  result[c].matched_tasks + result[c].orphaned_loe_entries
            /\ result[c].task_matches = task_matches[c]
            /\ result[c].orphaned_entries = orphaned[c]

C1_Witness ==
    /\ Done(1)
    /\ result[1].matched_tasks = 1
    /\ result[1].orphaned_loe_entries = 1
    /\ result[1].total_loe_entries = 2

-----------------------------------------------------------------------------
\* the score of every scope item of a call on every entry of the call
Scores(c) ==
    [k \in 1..Len(sow_tasks[c]) |->
        [p \in Positions(c) |-> Score(sow_tasks[c][k], loe_entries[c][p])]]

\* over the free positions, with row the scores of one scope item: the
\* greatest score (0 when there is none) and the tentative candidate, the
\* lowest position with the greatest score, 0 when every score is 0
TopOf(row, free) == SetMax({0} \cup {row[p] : p \in free})
CandidateOf(row, free) ==
    IF TopOf(row, free) = 0 THEN 0
    ELSE CHOOSE p \in free :
            /\ row[p] = TopOf(row, free)
            /\ \A q \in free : row[q] = TopOf(row, free) => p <= q

Candidate(c, sow_task, used) ==
    CandidateOf([p \in Positions(c) |-> Score(sow_task, loe_entries[c][p])],
                Free(c, used))

\* the highest-scoring candidate of every scope item of a call
FirstChoiceIn(c, scores) ==
    [k \in 1..Len(sow_tasks[c]) |-> CandidateOf(scores[k], Positions(c))]
FirstChoice(c) == FirstChoiceIn(c, Scores(c))

\* items i < j have the same entry as their highest-scoring candidate
ContestedIn(first, i, j) == i < j /\ first[i] # 0 /\ first[i] = first[j]
Contested(c, i, j) == ContestedIn(FirstChoice(c), i, j)

\* the entry two contending items contend for
ContestedEntry(c, i) == loe_entries[c][FirstChoice(c)[i]]

\* item j is paired with its highest-scoring entry among those unconsumed
\* when it was taken up if that score reaches the threshold, else unmatched
TakesNextBestIn(c, scores, j) ==
    LET free == Free(c, UsedBefore(c, j))
    IN  IF TopOf(scores[j], free) >= match_threshold
        THEN task_matches[c][j].loe_entry =
                loe_entries[c][CandidateOf(scores[j], free)]
        ELSE /\ task_matches[c][j].loe_entry = None
             /\ task_matches[c][j].match_status = UNMATCHED
TakesNextBest(c, j) == TakesNextBestIn(c, Scores(c), j)

\* no assignment already made is changed by a step
NoRevision ==
    \A c \in Calls : \A k \in Items(c) :
        /\ k <= Len(task_matches'[c])
        /\ task_matches'[c][k].sow_task = task_matches[c][k].sow_task
        /\ task_matches'[c][k].loe_entry = task_matches[c][k].loe_entry
        /\ task_matches'[c][k].match_status = task_matches[c][k].match_status
        /\ task_matches'[c][k].match_score = task_matches[c][k].match_score

GreedyAsClaimed ==
    \A c \in Running : \A j \in Items(c) : \A i \in 1..(j - 1) :
        Contested(c, i, j) =>
            /\ task_matches[c][i].loe_entry = ContestedEntry(c, i)
            /\ TakesNextBest(c, j)

GreedyAmended ==
    \A c \in Running :
        \A scores \in {Scores(c)} : \A first \in {FirstChoiceIn(c, scores)} :
            \A j \in Items(c) : \A i \in 1..(j - 1) :
                ContestedIn(first, i, j) =>
                    /\ IF /\ (first[i] - 1) \notin UsedBefore(c, i)
                          /\ scores[i][first[i]] >= match_threshold
                       THEN /\ task_matches[c][i].loe_entry = loe_entries[c][first[i]]
                            /\ task_matches[c][j].loe_entry # loe_entries[c][first[i]]
                       ELSE TakesNextBestIn(c, scores, i)
                    /\ TakesNextBestIn(c, scores, j)

(* C2 as claimed: when two scope items have the same entry as their        *)
(* highest-scoring candidate, the earlier one is paired with it and the    *)
(* later one takes its next best unconsumed entry or is unmatched; no      *)
(* earlier assignment is ever revised.                                     *)
C2_GreedyAsClaimed == []GreedyAsClaimed /\ [][NoRevision]_vars

(* C2 amended: the earlier of the two is paired with the contested entry   *)
(* when the entry is still unconsumed as the item is taken up and its      *)
(* score reaches the threshold (the later one then never holds it);        *)
(* otherwise the earlier one, like the later one, takes its highest-       *)
(* scoring unconsumed entry if that reaches the threshold and is unmatched *)
(* if not.  No earlier assignment is ever revised.                         *)
C2_GreedyPriority == []GreedyAmended /\ [][NoRevision]_vars

\* the later item scores higher on the contested entry, the earlier one
\* holds it, and the later one is paired with another entry
C2_Witness ==
    /\ Matched(1)
    /\ Len(task_matches[1]) = 2
    /\ Contested(1, 1, 2)
    /\ Score(sow_tasks[1][2], ContestedEntry(1, 1))
          > Score(sow_tasks[1][1], ContestedEntry(1, 1))
    /\ task_matches[1][1].loe_entry = ContestedEntry(1, 1)
    /\ task_matches[1][2].loe_entry # None
    /\ task_matches[1][2].loe_entry # ContestedEntry(1, 1)

-----------------------------------------------------------------------------
\* the step that takes up the next scope item of call c
TakesUpItem(c) == Len(task_matches'[c]) = Len(task_matches[c]) + 1

\* what the claim says of that step, s being the best candidate score of
\* the item over the entries unconsumed before the step
ClassifiedByScore(c) ==
    LET k == Len(task_matches[c]) + 1
        s == TopScore(c, sow_tasks[c][k], used_loe_indices[c])
        chosen == Candidate(c, sow_tasks[c][k], used_loe_indices[c])
    IN  /\ s >= 95 => task_matches'[c][k].match_status = EXACT
        /\ (70 <= s /\ s < 95) => task_matches'[c][k].match_status = FUZZY
        /\ s < 70 =>
            /\ task_matches'[c][k].match_status = UNMATCHED
            /\ task_matches'[c][k].loe_entry = None
            /\ task_matches'[c][k].match_score = 0
        /\ IF task_matches'[c][k].match_status \in {EXACT, FUZZY}
           THEN /\ used_loe_indices'[c] = used_loe_indices[c] \cup {chosen - 1}
                /\ (chosen - 1) \notin used_loe_indices[c]
                /\ task_matches'[c][k].loe_entry = loe_entries[c][chosen]
                /\ task_matches'[c][k].match_score = s
           ELSE used_loe_indices'[c] = used_loe_indices[c]
        /\ task_matches'[c][k].match_status \in {EXACT, FUZZY, UNMATCHED}

(* C3: with the default threshold 70 each scope item is classified from    *)
(* its best candidate score s: s >= 95 exact, 70 <= s < 95 fuzzy, s < 70   *)
(* unmatched with the tentative candidate discarded; the chosen position   *)
(* is marked consumed exactly when the status is exact or fuzzy (no other  *)
(* step consumes a position); the status is never anything else.          *)
C3_Classification ==
    [][\A c \in Running :
        /\ match_threshold = DefaultMatchThreshold
        /\ IF TakesUpItem(c) THEN ClassifiedByScore(c)
           ELSE used_loe_indices'[c] = used_loe_indices[c]]_vars

\* a fuzzy match at exactly 70 that consumed its entry, then an item whose
\* best candidate scored 69 and was discarded
C3_Witness ==
    /\ Matched(1)
    /\ Len(task_matches[1]) = 2
    /\ task_matches[1][1].match_status = FUZZY
    /\ task_matches[1][1].match_score = 70
    /\ used_loe_indices[1] = {task_matches[1][1].loe_entry.id - 1}
    /\ task_matches[1][2].match_status = UNMATCHED
    /\ TopScore(1, sow_tasks[1][2], UsedBefore(1, 2)) = 69

-----------------------------------------------------------------------------
(* C4: in every TaskMatch returned by validate, match_score is in [0,100], *)
(* status = exact iff match_score >= 95, and status = unmatched iff        *)
(* match_score = 0 and no entry is attached.                               *)
C4_ScoreAndStatus ==
    \A c \in Running :
        Done(c) =>
            \A k \in 1..Len(result[c].task_matches) :
                /\ result[c].task_matches[k].match_score >= 0
                /\ result[c].task_matches[k].match_score <= 100
                /\ result[c].task_matches[k].match_status = EXACT
                    <=> result[c].task_matches[k].match_score >= 95
                /\ result[c].task_matches[k].match_status = UNMATCHED
                    <=> (/\ result[c].task_matches[k].match_score = 0
                         /\ result[c].task_matches[k].loe_entry = None)

\* a result with an exact match at 95 and an unmatched item whose tentative
\* candidate had scored 69
C4_Witness ==
    /\ Done(1)
    /\ \E k \in 1..Len(result[1].task_matches) :
        /\ result[1].task_matches[k].match_status = EXACT
        /\ result[1].task_matches[k].match_score = 95
    /\ \E k \in 1..Len(result[1].task_matches) :
        /\ result[1].task_matches[k].match_status = UNMATCHED
        /\ TopScore(1, sow_tasks[1][k], UsedBefore(1, k)) = 69

-----------------------------------------------------------------------------
(* C5: _match_tasks returns one TaskMatch per scope item, the i-th holding *)
(* the i-th item, and the orphan list is the subsequence of the entries at *)
(* the positions never consumed, in their original order.                  *)
C5_OrderAndOrphans ==
    \A c \in Running :
        Matched(c) =>
            /\ Len(task_matches[c]) = Len(sow_tasks[c])
            /\ \A i \in Items(c) : task_matches[c][i].sow_task = sow_tasks[c][i]
            /\ \A k \in 1..Len(orphaned[c]) :
                /\ orphaned[c][k].id \in Positions(c)
                /\ orphaned[c][k] = loe_entries[c][orphaned[c][k].id]
                /\ k > 1 => orphaned[c][k - 1].id < orphaned[c][k].id
            /\ {orphaned[c][k].id : k \in 1..Len(orphaned[c])}
                  = Free(c, used_loe_indices[c])

\* two scope items, none matched, two orphans
C5_Witness ==
    /\ Matched(1)
    /\ Len(task_matches[1]) = 2
    /\ Len(orphaned[1]) = 2
    /\ used_loe_indices[1] = {}

-----------------------------------------------------------------------------
SomeUnmatched(r) ==
    \E k \in 1..Len(r.task_matches) : r.task_matches[k].match_status = UNMATCHED
SomeOrphan(r) == r.orphaned_entries # <<>>
SomeInvalid(r) ==
    \E k \in 1..Len(r.task_matches) : ~r.task_matches[k].duration_valid
Bit(b) == IF b THEN 1 ELSE 0

(* C6: the overall status is FAIL iff some scope item is unmatched,        *)
(* WARNING iff none is and there is an orphan or a TaskMatch with          *)
(* duration_valid = false, PASS otherwise; critical_issues holds one       *)
(* message iff unmatched_count > 0 and none otherwise; warnings holds one  *)
(* message iff orphans exist plus one iff some duration_valid is false;    *)
(* per-match issues never make the result FAIL.                            *)
C6_StatusDominance ==
    \A c \in Running :
        Done(c) =>
            /\ result[c].status = FAIL <=> SomeUnmatched(result[c])
            /\ result[c].status = WARNING
                <=> (/\ ~SomeUnmatched(result[c])
                     /\ SomeOrphan(result[c]) \/ SomeInvalid(result[c]))
            /\ result[c].status = PASS
                <=> (/\ ~SomeUnmatched(result[c])
                     /\ ~SomeOrphan(result[c])
                     /\ ~SomeInvalid(result[c]))
            /\ result[c].status \in ValidationStatus
            /\ SomeUnmatched(result[c]) <=> result[c].unmatched_sow_tasks > 0
            /\ Len(result[c].critical_issues)
                  = Bit(result[c].unmatched_sow_tasks > 0)
            /\ Len(result[c].warnings)
                  = Bit(SomeOrphan(result[c])) + Bit(SomeInvalid(result[c]))

\* an under-estimated match carrying an issue, no unmatched item, no
\* orphan: the result is WARNING, not FAIL
C6_Witness ==
    /\ Done(1)
    /\ result[1].status = WARNING
    /\ ~SomeOrphan(result[1])
    /\ \E k \in 1..Len(result[1].task_matches) :
        /\ result[1].task_matches[k].issues # <<>>
        /\ ~result[1].task_matches[k].duration_valid

-----------------------------------------------------------------------------
\* call c stands at a step of validate that it can take: inside or at the
\* end of the loop of _match_tasks, or inside or at the end of the loop over
\* task_matches
CanStep(c) ==
    \/ pc[c] = "match" /\ cursor[c] \in 1..(Len(sow_tasks[c]) + 1)
    \/ /\ pc[c] = "duration"
       /\ cursor[c] \in 1..(Len(task_matches[c]) + 1)
       /\ Len(task_matches[c]) = Len(sow_tasks[c])
       /\ clock <= MaxClock

(* C7: validate never fails on well-typed input (a call that has not       *)
(* returned stands at a step it can take, and a returned call holds a      *)
(* response), also on empty lists: an empty                                *)
(* scope list gives an empty task_matches and every entry orphaned; an     *)
(* empty entry list gives every TaskMatch unmatched with score 0 and no    *)
(* entry, and an empty orphan list.                                        *)
C7_NeverFails ==
    \A c \in Running :
        /\ ~Done(c) => CanStep(c) /\ result[c] = None
        /\ Done(c) => result[c] # None /\ result[c].status \in ValidationStatus
        /\ (Done(c) /\ sow_tasks[c] = <<>>) =>
            /\ result[c].task_matches = <<>>
            /\ result[c].orphaned_entries = loe_entries[c]
        /\ (Done(c) /\ loe_entries[c] = <<>>) =>
            /\ Len(result[c].task_matches) = Len(sow_tasks[c])
            /\ \A k \in 1..Len(result[c].task_matches) :
                /\ result[c].task_matches[k].match_status = UNMATCHED
                /\ result[c].task_matches[k].match_score = 0
                /\ result[c].task_matches[k].loe_entry = None
            /\ result[c].orphaned_entries = <<>>

\* a returned call on an empty entry list and a non-empty scope list
C7_Witness ==
    /\ Done(1)
    /\ loe_entries[1] = <<>>
    /\ Len(result[1].task_matches) = 2

-----------------------------------------------------------------------------
\* a TaskMatch as its construction left it
Unfilled(m) ==
    /\ m.complexity_analysis = None
    /\ m.duration_valid
    /\ m.duration_variance = None
    /\ m.issues = <<>>
    /\ m.warnings = <<>>

(* C10: a step of validate leaves the engine's taxonomy and threshold, the *)
(* input lists and their records unchanged; of the records that exist it   *)
(* writes only complexity_analysis, duration_valid, duration_variance,     *)
(* issues and warnings of TaskMatch objects of the call, and only of a     *)
(* TaskMatch not filled in before.                                         *)
C10_FrameEffect ==
    [][/\ complexity_keywords' = complexity_keywords
       /\ match_threshold' = match_threshold
       /\ sow_tasks' = sow_tasks
       /\ loe_entries' = loe_entries
       /\ \A c \in Calls :
            /\ Matched(c) => orphaned'[c] = orphaned[c]
            /\ \A k \in Items(c) :
                /\ k <= Len(task_matches'[c])
                /\ task_matches'[c][k].sow_task = task_matches[c][k].sow_task
                /\ task_matches'[c][k].loe_entry = task_matches[c][k].loe_entry
                /\ task_matches'[c][k].match_status = task_matches[c][k].match_status
                /\ task_matches'[c][k].match_score = task_matches[c][k].match_score
                /\ task_matches'[c][k] # task_matches[c][k]
                    => Unfilled(task_matches[c][k])]_vars

\* both TaskMatches of a call have been filled in, one of them judged
C10_Witness ==
    /\ Done(1)
    /\ Len(task_matches[1]) = 2
    /\ \A k \in Items(1) : task_matches[1][k].complexity_analysis # None
    /\ \E k \in Items(1) : ~task_matches[1][k].duration_valid

-----------------------------------------------------------------------------
BothDone == Done(1) /\ Done(2)
SameInputs == sow_tasks[1] = sow_tasks[2] /\ loe_entries[1] = loe_entries[2]
Untimed(r) == [r EXCEPT !.validation_timestamp = NoneStr]

\* C8 as stated: two runs on the same inputs agree in every field of the
\* result, validation_timestamp included
C8_IdenticalResults ==
    (BothDone /\ SameInputs) => result[1] = result[2]

(* C8: running validate twice on unchanged inputs with the same engine     *)
(* configuration yields identical TaskMatch assignments, identical scores  *)
(* and identical values in every field of the result except                *)
(* validation_timestamp, which is the clock reading of each run.           *)
C8_Determinism ==
    (BothDone /\ SameInputs) =>
        /\ Untimed(result[1]) = Untimed(result[2])
        /\ \A k \in 1..Len(result[1].task_matches) :
            /\ result[1].task_matches[k].loe_entry
                 = result[2].task_matches[k].loe_entry
            /\ result[1].task_matches[k].match_score
                 = result[2].task_matches[k].match_score

\* two runs on the same scope item and the same entry, the item matched,
\* returned at different clock readings
C8_Witness ==
    /\ BothDone
    /\ SameInputs
    /\ Len(result[1].task_matches) = 1
    /\ result[1].task_matches[1].match_status = FUZZY
    /\ result[1].validation_timestamp # result[2].validation_timestamp

-----------------------------------------------------------------------------
(* C9: two validate calls sharing one engine instance, interleaved in any  *)
(* order, each return exactly the result validate returns when run alone   *)
(* on the call's inputs (at the call's clock reading), and the orphans     *)
(* each call finds are those of the run alone.                             *)
C9_Isolation ==
    \A c \in Running :
        /\ Matched(c) =>
            orphaned[c] = _match_tasks(sow_tasks[c], loe_entries[c]).orphaned
        /\ Done(c) =>
            result[c] = validate(sow_tasks[c], loe_entries[c], "Customer",
                                 "Project", result[c].validation_timestamp)

\* both calls have run to their return, each on a list of its own, and each
\* has attached the entry at index 0 of its list
C9_Witness ==
    /\ BothDone
    /\ \A c \in Calls :
        /\ Len(result[c].task_matches) = 1
        /\ result[c].task_matches[1].match_status \in {EXACT, FUZZY}
        /\ used_loe_indices[c] = {0}
    /\ loe_entries[1] # loe_entries[2]

-----------------------------------------------------------------------------
\* the analyses a call holds: those stored in its TaskMatches
Analyses(c) ==
    {task_matches[c][k].complexity_analysis : k \in Items(c)} \ {None}

\* the product of the multipliers of the first n factors of a list
RECURSIVE ProductOfFirst(_, _)
ProductOfFirst(factors, n) ==
    IF n = 0 THEN Int2Rat(1)
    ELSE RMul(ProductOfFirst(factors, n - 1), factors[n].multiplier)

\* a <= b on rationals
RLe(a, b) == a[1] * b[2] <= b[1] * a[2]

(* C11: every ComplexityAnalysis returned by _analyze_complexity has       *)
(* total_multiplier equal to the product of the multipliers of its factors *)
(* (1 when there is none), expected_days_min = base_days x                 *)
(* total_multiplier x 0.8, expected_days_max = base_days x                 *)
(* total_multiplier x 1.5, and expected_days_min <= expected_days_max.     *)
C11_MultiplierAndRange ==
    \A c \in Running : \A a \in Analyses(c) :
        /\ a.total_multiplier
             = ProductOfFirst(a.complexity_factors, Len(a.complexity_factors))
        /\ a.complexity_factors = <<>> => a.total_multiplier = <<1, 1>>
        /\ a.expected_days_min
             = RMul(RMul(a.base_days, a.total_multiplier), <<4, 5>>)
        /\ a.expected_days_max
             = RMul(RMul(a.base_days, a.total_multiplier), <<3, 2>>)
        /\ RLe(a.expected_days_min, a.expected_days_max)

\* an analysis with two factors of different multipliers: 3.0 x (1.2 x 1.5)
C11_Witness ==
    \E a \in Analyses(1) :
        /\ Len(a.complexity_factors) = 2
        /\ a.complexity_factors[1].multiplier # a.complexity_factors[2].multiplier
        /\ a.total_multiplier = <<9, 5>>
        /\ a.expected_days_min = <<108, 25>>
        /\ a.expected_days_max = <<81, 10>>

-----------------------------------------------------------------------------
\* the sum of effective_days over the entries of a list
RECURSIVE EffectiveSum(_)
EffectiveSum(entries) ==
    IF entries = <<>> THEN RZero
    ELSE RAdd(effective_days(Head(entries)), EffectiveSum(Tail(entries)))

\* the entries attached to the TaskMatches of a result, in match order
AttachedEntries(r) ==
    LET held == SelectSeq(r.task_matches, HasEntry)
    IN  [k \in 1..Len(held) |-> held[k].loe_entry]

(* C12: total_loe_days equals the sum of effective_days over the entries   *)
(* attached to matched TaskMatches plus the sum of effective_days over all *)
(* orphaned entries, so that the effort (effective_days) of every input    *)
(* entry is counted exactly once.                                          *)
C12_TotalLoeDays ==
    \A c \in Running :
        Done(c) =>
            /\ result[c].total_loe_days
                 = RAdd(EffectiveSum(AttachedEntries(result[c])),
                        EffectiveSum(result[c].orphaned_entries))
            /\ result[c].total_loe_days = EffectiveSum(loe_entries[c])

-----------------------------------------------------------------------------
\* (expected_days_min + expected_days_max) / 2 summed over the matched
\* TaskMatches among the first n of a list
RECURSIVE MidSumOfFirst(_, _)
MidSumOfFirst(matches, n) ==
    IF n = 0 THEN RZero
    ELSE IF matches[n].match_status = UNMATCHED
         THEN MidSumOfFirst(matches, n - 1)
         ELSE RAdd(MidSumOfFirst(matches, n - 1),
                   RMul(RAdd(matches[n].complexity_analysis.expected_days_min,
                             matches[n].complexity_analysis.expected_days_max),
                        <<1, 2>>))

(* C13: total_expected_days is the sum of (expected_days_min +             *)
(* expected_days_max) / 2 over exactly the matched TaskMatches, and        *)
(* total_variance_percent = (total_loe_days - total_expected_days) /       *)
(* total_expected_days x 100 when total_expected_days > 0 and 0 otherwise, *)
(* in particular when no scope item is matched.                            *)
C13_ExpectedAndVariance ==
    \A c \in Running :
        Done(c) =>
          \A r \in {result[c]} :
            /\ r.total_sow_expected_days
                 = MidSumOfFirst(r.task_matches, Len(r.task_matches))
            /\ IF RGt(r.total_sow_expected_days, RZero)
               THEN r.total_variance_percent
                      = RMul(RDiv(RSub(r.total_loe_days, r.total_sow_expected_days),
                                  r.total_sow_expected_days), <<100, 1>>)
               ELSE r.total_variance_percent = RZero
            /\ r.matched_tasks = 0 =>
                /\ r.total_sow_expected_days = RZero
                /\ r.total_variance_percent = RZero

\* one item matched, one unmatched, and an orphan whose days count in
\* total_loe_days only: the variance is not 0
C13_Witness ==
    /\ Done(1)
    /\ result[1].matched_tasks = 1
    /\ result[1].unmatched_sow_tasks = 1
    /\ result[1].orphaned_loe_entries = 1
    /\ result[1].total_variance_percent # RZero
    /\ RGt(result[1].total_sow_expected_days, RZero)

-----------------------------------------------------------------------------
\* the places of a result's task_matches whose status is unmatched
UnmatchedPlaces(r) ==
    {k \in 1..Len(r.task_matches) : r.task_matches[k].match_status = UNMATCHED}

(* C14: in every result matched_tasks is the number of TaskMatches whose   *)
(* status is not unmatched, unmatched_sow_tasks the number whose status is *)
(* unmatched, matched_tasks + unmatched_sow_tasks = total_sow_tasks =      *)
(* length of task_matches, and orphaned_loe_entries is the length of       *)
(* orphaned_entries.                                                       *)
C14_Counts ==
    \A c \in Running :
        Done(c) =>
          \A r \in {result[c]} :
            /\ r.unmatched_sow_tasks = Cardinality(UnmatchedPlaces(r))
            /\ r.matched_tasks
                 = Cardinality((1..Len(r.task_matches)) \ UnmatchedPlaces(r))
            /\ r.matched_tasks + r.unmatched_sow_tasks = r.total_sow_tasks
            /\ r.total_sow_tasks = Len(r.task_matches)
            /\ r.total_sow_tasks = Len(sow_tasks[c])
            /\ r.orphaned_loe_entries = Len(r.orphaned_entries)

\* a fuzzy match, an unmatched item and an orphan in one result
C14_Witness ==
    /\ Done(1)
    /\ \E k \in 1..Len(result[1].task_matches) :
        result[1].task_matches[k].match_status = FUZZY
    /\ UnmatchedPlaces(result[1]) # {}
    /\ result[1].matched_tasks = 1
    /\ result[1].orphaned_loe_entries = 1

-----------------------------------------------------------------------------
\* the scenario: one scope item "Install HA cluster" / "deploy stretched
\* cluster with high availability" and one entry "Install HA cluster" of 10
\* days
ScenarioItem(s) ==
    /\ s.task = "Install HA cluster"
    /\ s.description = "deploy stretched cluster with high availability"
ScenarioEntry(e) ==
    /\ e.task = "Install HA cluster"
    /\ e.days = <<10, 1>>
    /\ e.total_days = None
Scenario(c) ==
    /\ Len(sow_tasks[c]) = 1
    /\ ScenarioItem(sow_tasks[c][1])
    /\ Len(loe_entries[c]) = 1
    /\ ScenarioEntry(loe_entries[c][1])

(* C15: validating the scenario's scope item against the scenario's entry  *)
(* gives match score 100 with status exact, duration_valid = false with an *)
(* over-estimation message in the match's warnings and none in its issues, *)
(* and overall status WARNING with no unmatched task and exactly one       *)
(* top-level warning.                                                      *)
C15_ScenarioOutcome ==
    \A c \in Running :
        (Done(c) /\ Scenario(c)) =>
          \A r \in {result[c]} :
            /\ Len(r.task_matches) = 1
            /\ r.task_matches[1].match_score = 100
            /\ r.task_matches[1].match_status = EXACT
            /\ r.task_matches[1].loe_entry = loe_entries[c][1]
            /\ r.task_matches[1].duration_valid = FALSE
            /\ Len(r.task_matches[1].warnings) = 1
            /\ r.task_matches[1].warnings[1][1] = "Duration may be over-estimated"
            /\ r.task_matches[1].issues = <<>>
            /\ r.status = WARNING
            /\ r.unmatched_sow_tasks = 0
            /\ r.critical_issues = <<>>
            /\ Len(r.warnings) = 1
            /\ r.orphaned_entries = <<>>

\* the scenario has been validated
C15_Witness == Done(1) /\ Scenario(1) /\ result[1].status = WARNING

-----------------------------------------------------------------------------
(* C16: for the scenario's scope item with the default taxonomy the        *)
(* analysis has detected_task_type "installation" with base_days 1.0,      *)
(* exactly one factor (category architecture, keyword "high availability", *)
(* multiplier 1.5), total_multiplier 1.5 and expected range [1.2, 2.25];   *)
(* against the entry of 10 days the over-estimation bound expected_max x   *)
(* 1.5 is 3.375 and duration_variance = (10 - 1.725) / 1.725 x 100.        *)
C16_ScenarioNumbers ==
    \A c \in Running :
        (Done(c) /\ Scenario(c)) =>
          \A m \in {result[c].task_matches[1]} :
            /\ m.complexity_analysis.detected_task_type = "installation"
            /\ m.complexity_analysis.base_days = <<1, 1>>
            /\ m.complexity_analysis.complexity_factors
                 = <<ComplexityFactor("high availability", "architecture", <<3, 2>>)>>
            /\ m.complexity_analysis.total_multiplier = <<3, 2>>
            /\ m.complexity_analysis.expected_days_min = <<6, 5>>
            /\ m.complexity_analysis.expected_days_max = <<9, 4>>
            /\ RMul(m.complexity_analysis.expected_days_max, <<3, 2>>) = <<27, 8>>
            /\ m.duration_variance
                 = RMul(RDiv(RSub(<<10, 1>>, <<69, 40>>), <<69, 40>>), <<100, 1>>)

-----------------------------------------------------------------------------
\* the entry at position p of a call scores below the threshold against
\* every scope item of the call
ScoresLow(c, p) ==
    \A k \in 1..Len(sow_tasks[c]) :
        Score(sow_tasks[c][k], loe_entries[c][p]) < DefaultMatchThreshold

\* what the entries of a call other than the one at position p add to
\* total_loe_days
RECURSIVE DaysOfOthers(_, _, _)
DaysOfOthers(entries, p, n) ==
    IF n = 0 THEN RZero
    ELSE IF n = p THEN DaysOfOthers(entries, p, n - 1)
         ELSE RAdd(DaysOfOthers(entries, p, n - 1), EntryDays(entries[n]))

\* an entry scoring low everywhere is never consumed, is an orphan, adds
\* nothing to total_expected_days, and brings the orphan warning and the
\* clarify-orphaned-entries recommendation
LowEntryOrphaned(c, p) ==
    /\ (p - 1) \notin used_loe_indices[c]
    /\ RefsTo(c, p) = {}
    /\ Matched(c) => OrphanPlaces(c, p) # {}
    /\ Done(c) =>
        /\ result[c].total_sow_expected_days
             = MidSumOfFirst(result[c].task_matches, Len(result[c].task_matches))
        /\ \E w \in 1..Len(result[c].warnings) :
            result[c].warnings[w][2] = "LOE entries have no matching SOW task"
        /\ \E w \in 1..Len(result[c].recommendations) :
            result[c].recommendations[w] = "Clarify orphaned LOE entries"

\* every part of C17 but the amount added to total_loe_days
LowEntriesOrphaned ==
    \A c \in Running : \A p \in Positions(c) :
        ScoresLow(c, p) => LowEntryOrphaned(c, p)

(* C17: an entry whose score against every scope item is below 70 is never *)
(* consumed, appears in the orphan list, adds its effective_days to        *)
(* total_loe_days but nothing to total_expected_days, and causes the       *)
(* result to carry the orphan warning and the clarify-orphaned-entries     *)
(* recommendation.                                                         *)
C17_LowScoreEntry ==
    \A c \in Running : \A p \in Positions(c) :
        ScoresLow(c, p) =>
            /\ LowEntryOrphaned(c, p)
            /\ Done(c) =>
                result[c].total_loe_days
                  = RAdd(DaysOfOthers(loe_entries[c], p, Len(loe_entries[c])),
                         effective_days(loe_entries[c][p]))

-----------------------------------------------------------------------------
\* call c is about to take up a scope item
AtItem(c) == pc[c] = "match" /\ cursor[c] <= Len(sow_tasks[c])

\* the three similarity measures of a scope item and an entry
Measures(sow_task, loe_entry) ==
    {fuzz_ratio(lower(sow_task.task), lower(loe_entry.task)),
     fuzz_partial_ratio(lower(sow_task.task), lower(loe_entry.task)),
     fuzz_token_sort_ratio(lower(Join(sow_task.task, sow_task.description)),
                           lower(loe_entry.task))}

(* C20: for each scope item the tentative candidate is chosen only among   *)
(* the entries not yet consumed, as the one with the greatest score (the   *)
(* maximum of the three similarity measures); among entries tied at that   *)
(* score the one at the lowest input position is chosen, and an entry with *)
(* score 0 is never a candidate.                                           *)
C20_TentativeCandidate ==
    \A c \in Running :
        AtItem(c) =>
          \A row \in {[p \in Positions(c) |->
                        Score(sow_tasks[c][cursor[c]], loe_entries[c][p])]} :
          \A free \in {Free(c, used_loe_indices[c])} :
          \A best \in {BestCandidate(sow_tasks[c][cursor[c]], loe_entries[c],
                                     used_loe_indices[c])} :
            /\ \A p \in Positions(c) :
                row[p] = SetMax(Measures(sow_tasks[c][cursor[c]], loe_entries[c][p]))
            /\ best.best_score = TopOf(row, free)
            /\ best.best_idx + 1 = CandidateOf(row, free)
            /\ IF \A p \in free : row[p] = 0
               THEN best.best_idx = -1 /\ best.best_match = None
               ELSE /\ best.best_idx + 1 \in free
                    /\ best.best_match = loe_entries[c][best.best_idx + 1]
                    /\ best.best_score > 0
                    /\ \A p \in free :
                        \/ row[p] < best.best_score
                        \/ row[p] = best.best_score /\ p >= best.best_idx + 1

\* the first item found two entries tied at its greatest score and took the
\* one at the lower position; the second item is about to be taken up with
\* that entry consumed
C20_Witness ==
    /\ AtItem(1)
    /\ cursor[1] = 2
    /\ Len(loe_entries[1]) = 2
    /\ Score(sow_tasks[1][1], loe_entries[1][1])
         = Score(sow_tasks[1][1], loe_entries[1][2])
    /\ Score(sow_tasks[1][1], loe_entries[1][1]) >= DefaultMatchThreshold
    /\ task_matches[1][1].loe_entry = loe_entries[1][1]
    /\ used_loe_indices[1] = {0}
    /\ Score(sow_tasks[1][2], loe_entries[1][2]) > 0

-----------------------------------------------------------------------------
(* DocumentParser: extraction of scope items from a table of a SOW         *)
(* document.  A table is a sequence of rows, a row a sequence of cell      *)
(* texts; column indices count from 0 as in the code.                      *)

\* str.strip(), character by character
RECURSIVE Strip(_)
Strip(t) ==
    IF t # "" /\ SubSeq(t, 1, 1) \in {" ", "\t", "\n"}
    THEN Strip(SubSeq(t, 2, Len(t)))
    ELSE IF t # "" /\ SubSeq(t, Len(t), Len(t)) \in {" ", "\t", "\n"}
         THEN Strip(SubSeq(t, 1, Len(t) - 1))
    ELSE t

\* " ".join(h.lower() for h in texts)
RECURSIVE JoinLower(_)
JoinLower(texts) ==
    IF texts = <<>> THEN ""
    ELSE IF Len(texts) = 1 THEN LowerText(texts[1])
    ELSE LowerText(texts[1]) \o " " \o JoinLower(Tail(texts))

SCOPE_TABLE_KEYWORDS ==
    {"phase", "task", "deliverable", "activity", "description", "owner",
     "responsibility", "milestone", "scope"}

\* any(kw in text for kw in words)
AnyIn(words, text) == \E kw \in words : Occurs(kw, text)

\* mapping[key] = idx
Put(mapping, key, idx) ==
    [x \in DOMAIN mapping \cup {key} |-> IF x = key THEN idx ELSE mapping[x]]

\* the body of the loop of _map_sow_columns
MapHeader(mapping, idx, header_clean) ==
    IF AnyIn({"phase", "stage"}, header_clean) THEN Put(mapping, "phase", idx)
    ELSE IF AnyIn({"task", "activity", "deliverable", "scope"}, header_clean)
         THEN IF "task" \notin DOMAIN mapping
              THEN Put(mapping, "task", idx)
              ELSE mapping
    ELSE IF AnyIn({"description", "detail", "note"}, header_clean)
         THEN Put(mapping, "description", idx)
    ELSE IF AnyIn({"owner", "responsible", "assigned"}, header_clean)
         THEN Put(mapping, "owner", idx)
    ELSE mapping

RECURSIVE MapSowColumnsFrom(_, _, _)
MapSowColumnsFrom(headers, idx, mapping) ==
    IF idx >= Len(headers) THEN mapping
    ELSE MapSowColumnsFrom(headers, idx + 1,
            MapHeader(mapping, idx, Strip(LowerText(headers[idx + 1]))))

\* headers is header_lower = [h.lower() for h in header_row]
_map_sow_columns(headers) == MapSowColumnsFrom(headers, 0, <<>>)

\* max(col_mapping.values())
MaxColumn(col_mapping) ==
    CHOOSE i \in {col_mapping[x] : x \in DOMAIN col_mapping} :
        \A x \in DOMAIN col_mapping : col_mapping[x] <= i

\* row[col_mapping[key]].strip(), "" when the header names no such column
CellOf(row, col_mapping, key) ==
    IF key \in DOMAIN col_mapping THEN Strip(row[col_mapping[key] + 1]) ELSE ""

\* current_phase after the phase cell of a row has been read
PhaseAfter(row, col_mapping, current_phase) ==
    IF CellOf(row, col_mapping, "phase") # ""
    THEN CellOf(row, col_mapping, "phase")
    ELSE current_phase

\* tasks after a row that holds every mapped column
TasksAfter(row, col_mapping, phase, tasks) ==
    IF CellOf(row, col_mapping, "task") = "" THEN tasks
    ELSE Append(tasks,
            SOWTask(Len(tasks) + 1, phase, CellOf(row, col_mapping, "task"),
                    IF CellOf(row, col_mapping, "description") # ""
                    THEN CellOf(row, col_mapping, "description")
                    ELSE CellOf(row, col_mapping, "task"),
                    IF CellOf(row, col_mapping, "owner") # ""
                    THEN CellOf(row, col_mapping, "owner")
                    ELSE "TeraSky"))

\* "for row in rows[1:]", from the k-th row on; a row too short to hold every
\* mapped column is skipped before its phase cell is read
RECURSIVE ExtractRows(_, _, _, _, _)
ExtractRows(rows, k, col_mapping, current_phase, tasks) ==
    IF k > Len(rows) THEN tasks
    ELSE IF Len(rows[k]) <= MaxColumn(col_mapping)
         THEN ExtractRows(rows, k + 1, col_mapping, current_phase, tasks)
    ELSE ExtractRows(rows, k + 1, col_mapping,
                     PhaseAfter(rows[k], col_mapping, current_phase),
                     TasksAfter(rows[k], col_mapping,
                                PhaseAfter(rows[k], col_mapping, current_phase),
                                tasks))

\* the extraction once the cells are cleaned
ExtractClean(rows) ==
    IF Len(rows) < 2 THEN <<>>
    ELSE IF ~AnyIn(SCOPE_TABLE_KEYWORDS, JoinLower(rows[1])) THEN <<>>
    ELSE IF "task" \notin DOMAIN _map_sow_columns([i \in 1..Len(rows[1]) |->
                                                    LowerText(rows[1][i])])
         THEN <<>>
    ELSE ExtractRows(rows, 2,
                     _map_sow_columns([i \in 1..Len(rows[1]) |-> LowerText(rows[1][i])]),
                     "General", <<>>)

\* rows = [[cell.text.strip() for cell in row.cells] for row in table.rows]
_extract_tasks_from_table(table) ==
    ExtractClean([k \in 1..Len(table) |->
                    [i \in 1..Len(table[k]) |-> Strip(table[k][i])]])

\* table = [[str(cell).strip() if cell else "" for cell in row] for row in table]
_extract_tasks_from_pdf_table(table) ==
    ExtractClean([k \in 1..Len(table) |->
                    [i \in 1..Len(table[k]) |->
                        IF table[k][i] = NoneStr THEN "" ELSE Strip(table[k][i])]])

-----------------------------------------------------------------------------
(* The table extraction applied to the tables of a bounded set *)

MaxTableRows == 2

\* the engine is not called
EngineIdle ==
    /\ complexity_keywords = ValidatorService(None).complexity_keywords
    /\ match_threshold = ValidatorService(None).match_threshold
    /\ clock = 0
    /\ pc = [c \in Calls |-> "idle"]
    /\ sow_tasks = [c \in Calls |-> <<>>]
    /\ loe_entries = [c \in Calls |-> <<>>]
    /\ used_loe_indices = [c \in Calls |-> {}]
    /\ task_matches = [c \in Calls |-> <<>>]
    /\ orphaned = [c \in Calls |-> <<>>]
    /\ cursor = [c \in Calls |-> 1]
    /\ result = [c \in Calls |-> None]

\* a table is a header row followed by at most MaxTableRows rows.  A row of a
\* Word table that ends early has fewer cells than the header; the rows
\* pdfplumber returns are all of one length, a cell without text being None
InitTable ==
    /\ EngineIdle
    /\ fuzz = <<>>
    /\ LET headers == { <<"Phase", "Task", "Description", "Owner">>,
                        <<"Activity", "Details">>,
                        <<"Phase", "Owner">>,
                        <<"Item", "Qty">> }
           word == { <<"Phase 1", "Install HA cluster",
                       "deploy stretched cluster with high availability", "Customer">>,
                     <<" ", "Data migration", "", "">>,
                     <<" Phase 2 ", "", "", "">>,
                     <<"Phase 3">> }
           pdf == { <<"Phase 1", "Install HA cluster",
                      "deploy stretched cluster with high availability", "Customer">>,
                    <<NoneStr, "Data migration", NoneStr, NoneStr>>,
                    <<" Phase 2 ", NoneStr, "", NoneStr>>,
                    <<NoneStr, "Travel", "on site", NoneStr>> }
       IN  doc_table \in
            {[format |-> "docx", rows |-> <<h>> \o body] :
                h \in headers, body \in SeqsUpTo(word, MaxTableRows)}
            \cup {[format |-> "pdf", rows |-> <<h>> \o body] :
                    h \in headers, body \in SeqsUpTo(pdf, MaxTableRows)}
    /\ table_tasks = None
    /\ file_registry = <<>>
    /\ request = None
    /\ handler = "extract"
    /\ parsed = None
    /\ response = None
    /\ uuids = {}

\* _parse_word_document and _parse_pdf_document hand a table to the
\* extraction
ExtractTable ==
    /\ handler = "extract"
    /\ table_tasks' = IF doc_table.format = "docx"
                      THEN _extract_tasks_from_table(doc_table.rows)
                      ELSE _extract_tasks_from_pdf_table(doc_table.rows)
    /\ handler' = "extracted"
    /\ UNCHANGED <<engine, doc_table, file_registry, request, parsed, response, uuids>>

SpecTable == InitTable /\ [][ExtractTable]_vars

-----------------------------------------------------------------------------
\* the cell texts of the table handed to the extraction
CellTexts(t) ==
    [k \in 1..Len(t.rows) |->
        [i \in 1..Len(t.rows[k]) |->
            IF t.format = "pdf" /\ t.rows[k][i] = NoneStr THEN ""
            ELSE Strip(t.rows[k][i])]]

\* the columns the header row of the table names
ColumnsOf(rows) ==
    _map_sow_columns([i \in 1..Len(rows[1]) |-> LowerText(rows[1][i])])

\* the rows of the table that produce an item, and the row of the k-th item
Producing(rows, cm) ==
    {j \in 2..Len(rows) : Len(rows[j]) > MaxColumn(cm) /\ rows[j][cm["task"] + 1] # ""}
SourceRow(rows, cm, k) ==
    CHOOSE j \in Producing(rows, cm) :
        Cardinality({i \in Producing(rows, cm) : i <= j}) = k

\* the rows up to row j that carry a non-empty phase label
LabelRows(rows, cm, j) ==
    IF "phase" \notin DOMAIN cm THEN {}
    ELSE {i \in 2..j : Len(rows[i]) > cm["phase"] /\ rows[i][cm["phase"] + 1] # ""}

\* those of them that hold a cell for every column the header names
WideLabelRows(rows, cm, j) ==
    {i \in LabelRows(rows, cm, j) : Len(rows[i]) > MaxColumn(cm)}

\* the label of the last of the rows in labelRows
LastLabel(rows, cm, labelRows) ==
    IF labelRows = {} THEN "General"
    ELSE rows[CHOOSE i \in labelRows : \A o \in labelRows : o <= i][cm["phase"] + 1]

\* a cell of a row is empty, or the header names no such column
EmptyOrAbsent(row, cm, key) == key \notin DOMAIN cm \/ row[cm[key] + 1] = ""

\* item is what the row yields when phase is the label in force
ItemOfRow(item, row, cm, phase) ==
    /\ item.task # ""
    /\ item.task = row[cm["task"] + 1]
    /\ item.phase = phase
    /\ item.description = IF EmptyOrAbsent(row, cm, "description")
                          THEN item.task
                          ELSE row[cm["description"] + 1]
    /\ item.owner = IF EmptyOrAbsent(row, cm, "owner")
                    THEN "TeraSky"
                    ELSE row[cm["owner"] + 1]

(* C19: every scope item produced by table extraction has a non-empty      *)
(* task; its phase is the last non-empty phase label seen at or before its *)
(* row ("General" before any is seen), labels on rows that produce no item *)
(* included; its description is the task text when the description cell is *)
(* empty; its owner is the placeholder when the owner cell is empty or     *)
(* absent.                                                                 *)
C19_ScopeItems ==
    handler = "extracted" /\ table_tasks # <<>> =>
        \A rows \in {CellTexts(doc_table)} :
        \A cm \in {ColumnsOf(rows)} :
            /\ Len(table_tasks) = Cardinality(Producing(rows, cm))
            /\ \A k \in 1..Len(table_tasks) :
                \A j \in {SourceRow(rows, cm, k)} :
                    ItemOfRow(table_tasks[k], rows[j], cm,
                              LastLabel(rows, cm, LabelRows(rows, cm, j)))

\* the same with the phase labels taken only from the rows that hold a cell
\* for every column the header names
ScopeItemsOfWideRows ==
    handler = "extracted" /\ table_tasks # <<>> =>
        \A rows \in {CellTexts(doc_table)} :
        \A cm \in {ColumnsOf(rows)} :
            /\ Len(table_tasks) = Cardinality(Producing(rows, cm))
            /\ \A k \in 1..Len(table_tasks) :
                \A j \in {SourceRow(rows, cm, k)} :
                    ItemOfRow(table_tasks[k], rows[j], cm,
                              LastLabel(rows, cm, WideLabelRows(rows, cm, j)))

\* an item took its phase from a label-only row, its description from its
\* task and the placeholder as owner
ScopeItemsWitness ==
    /\ handler = "extracted"
    /\ Len(table_tasks) = 1
    /\ table_tasks[1].phase = "Phase 2"
    /\ table_tasks[1].description = table_tasks[1].task
    /\ table_tasks[1].owner = "TeraSky"

-----------------------------------------------------------------------------
(* DocumentParser: the estimate worksheet.  A worksheet is a sequence of   *)
(* rows of cells; a cell holds nothing, a text or a number, with text its  *)
(* str() rendering.  A ColumnMappingRequest is the function from "task",   *)
(* "days", "phase", "risk", "total" to its *_column fields.  A function    *)
(* that returns Optional[int] returns -1 for None here.                    *)

\* range(1, 11): the rows searched for the header
HeaderSearchRows == 10

\* int(t) for a text of decimal digits read after acc, -1 for any other text
RECURSIVE DigitsValue(_, _)
DigitsValue(t, acc) ==
    IF t = "" THEN acc
    ELSE IF \A d \in 0..9 : SubSeq("0123456789", d + 1, d + 1) # SubSeq(t, 1, 1)
         THEN -1
    ELSE DigitsValue(SubSeq(t, 2, Len(t)),
            10 * acc + (CHOOSE d \in 0..9 :
                            SubSeq("0123456789", d + 1, d + 1) = SubSeq(t, 1, 1)))

\* re.match(r'^Column\s+(\d+)$', name, re.IGNORECASE) on a stripped name: the
\* number matched, -1 without a match
IndexReference(name) ==
    IF /\ Len(name) >= 8
       /\ LowerText(SubSeq(name, 1, 6)) = "column"
       /\ SubSeq(name, 7, 7) \in {" ", "\t", "\n"}
       /\ Strip(SubSeq(name, 7, Len(name))) # ""
    THEN DigitsValue(Strip(SubSeq(name, 7, Len(name))), 0)
    ELSE -1

_find_column(row_values, column_name) ==
    IF IndexReference(Strip(column_name)) >= 0
    THEN IF /\ 0 <= IndexReference(Strip(column_name)) - 1
            /\ IndexReference(Strip(column_name)) - 1 < Len(row_values)
         THEN IndexReference(Strip(column_name)) - 1
         ELSE -1
    ELSE IF \E i \in 1..Len(row_values) :
                Strip(LowerText(row_values[i])) = LowerText(Strip(column_name))
         THEN (CHOOSE i \in 1..Len(row_values) :
                /\ Strip(LowerText(row_values[i])) = LowerText(Strip(column_name))
                /\ \A j \in 1..(i - 1) :
                    Strip(LowerText(row_values[j])) # LowerText(Strip(column_name))) - 1
    ELSE -1

\* the dict of the columns found; an optional column is looked up only when
\* the mapping names it
_map_loe_columns(row_values, mapping) ==
    [key \in {k \in DOMAIN mapping :
                /\ k \in {"task", "days"} \/ mapping[k] \notin {NoneStr, ""}
                /\ _find_column(row_values, mapping[k]) >= 0}
        |-> _find_column(row_values, mapping[key])]

\* [str(cell.value).strip() if cell.value else "" for cell in worksheet[row_idx]];
\* a row after the last row of the sheet has no cell
RowValues(worksheet, row_idx) ==
    IF row_idx > Len(worksheet.rows) THEN <<>>
    ELSE [i \in 1..Len(worksheet.rows[row_idx]) |->
            IF \/ worksheet.rows[row_idx][i].kind = "none"
               \/ worksheet.rows[row_idx][i].kind = "str"
                    /\ worksheet.rows[row_idx][i].text = ""
               \/ worksheet.rows[row_idx][i].kind = "num"
                    /\ worksheet.rows[row_idx][i].number = RZero
            THEN ""
            ELSE Strip(worksheet.rows[row_idx][i].text)]

\* the search for the header row with one row more searched
RECURSIVE HeaderRowFromOneMore(_, _, _)
HeaderRowFromOneMore(worksheet, mapping, row_idx) ==
    IF row_idx > HeaderSearchRows + 1 THEN 0
    ELSE IF row_idx > Len(worksheet.rows) /\ worksheet.past_end = "IndexError" THEN -1
    ELSE IF IF IndexReference(Strip(mapping["task"])) >= 0
            THEN \E i \in 1..Len(RowValues(worksheet, row_idx)) :
                    RowValues(worksheet, row_idx)[i] # ""
            ELSE _find_column(RowValues(worksheet, row_idx), mapping["task"]) >= 0
         THEN row_idx
    ELSE HeaderRowFromOneMore(worksheet, mapping, row_idx + 1)

\* the search for the header row from row_idx on: the row found, 0 when
\* header_row stays None, -1 when worksheet[row_idx] raises IndexError on a
\* row after the last one
RECURSIVE HeaderRowFrom(_, _, _)
HeaderRowFrom(worksheet, mapping, row_idx) ==
    IF row_idx > HeaderSearchRows THEN 0
    ELSE IF row_idx > Len(worksheet.rows) /\ worksheet.past_end = "IndexError" THEN -1
    ELSE IF IF IndexReference(Strip(mapping["task"])) >= 0
            THEN \E i \in 1..Len(RowValues(worksheet, row_idx)) :
                    RowValues(worksheet, row_idx)[i] # ""
            ELSE _find_column(RowValues(worksheet, row_idx), mapping["task"]) >= 0
         THEN row_idx
    ELSE HeaderRowFrom(worksheet, mapping, row_idx + 1)

\* col_idx is col_indices.get(key); None, or no cell of the row at col_idx
_get_cell_value(row_data, col_indices, key) ==
    IF key \notin DOMAIN col_indices \/ col_indices[key] >= Len(row_data)
    THEN NoneStr
    ELSE IF row_data[col_indices[key] + 1].kind = "none" THEN NoneStr
    ELSE Strip(row_data[col_indices[key] + 1].text)

\* float(value): the number of a numeric cell, the number a text of digits
\* denotes, None (ValueError) for the other texts of the model
_get_numeric_value(row_data, col_indices, key) ==
    IF key \notin DOMAIN col_indices \/ col_indices[key] >= Len(row_data)
    THEN None
    ELSE IF row_data[col_indices[key] + 1].kind = "none" THEN None
    ELSE IF row_data[col_indices[key] + 1].kind = "num"
         THEN row_data[col_indices[key] + 1].number
    ELSE IF /\ Strip(row_data[col_indices[key] + 1].text) # ""
            /\ DigitsValue(Strip(row_data[col_indices[key] + 1].text), 0) >= 0
         THEN Int2Rat(DigitsValue(Strip(row_data[col_indices[key] + 1].text), 0))
    ELSE None

\* "for row_idx in range(header_row + 1, worksheet.max_row + 1)", from row_idx on
RECURSIVE EntriesFrom(_, _, _, _)
EntriesFrom(worksheet, col_indices, row_idx, entries) ==
    IF row_idx > Len(worksheet.rows) THEN entries
    ELSE IF \/ _get_cell_value(worksheet.rows[row_idx], col_indices, "task")
                 \in {NoneStr, ""}
            \/ _get_numeric_value(worksheet.rows[row_idx], col_indices, "days") = None
         THEN EntriesFrom(worksheet, col_indices, row_idx + 1, entries)
    ELSE EntriesFrom(worksheet, col_indices, row_idx + 1,
            Append(entries,
                LOEEntry(Len(entries) + 1,
                    _get_cell_value(worksheet.rows[row_idx], col_indices, "task"),
                    _get_cell_value(worksheet.rows[row_idx], col_indices, "phase"),
                    _get_numeric_value(worksheet.rows[row_idx], col_indices, "days"),
                    _get_numeric_value(worksheet.rows[row_idx], col_indices, "risk"),
                    _get_numeric_value(worksheet.rows[row_idx], col_indices, "total"))))

\* a collaborator's outcome: the exception it raised ("" for none) and the
\* list it returned
Outcome(raised, records) == [raised |-> raised, records |-> records]

\* _parse_loe_worksheet once the header search has ended with header_row
ParseBelow(worksheet, mapping, header_row) ==
    IF header_row = -1 THEN Outcome("IndexError", <<>>)
    ELSE IF header_row = 0 THEN Outcome("ValueError: Could not find header row", <<>>)
    ELSE IF "task" \notin DOMAIN _map_loe_columns(RowValues(worksheet, header_row), mapping)
         THEN Outcome("ValueError: Required task column not found", <<>>)
    ELSE IF "days" \notin DOMAIN _map_loe_columns(RowValues(worksheet, header_row), mapping)
         THEN Outcome("ValueError: Required days column not found", <<>>)
    ELSE Outcome("", EntriesFrom(worksheet,
                    _map_loe_columns(RowValues(worksheet, header_row), mapping),
                    header_row + 1, <<>>))

_parse_loe_worksheet(worksheet, mapping) ==
    ParseBelow(worksheet, mapping, HeaderRowFrom(worksheet, mapping, 1))

\* load_workbook raises on a file that is no workbook; sheet_name is None and
\* the active sheet is read
parse_loe_excel(file, mapping) ==
    IF file.suffix # ".xlsx" THEN Outcome("InvalidFileException", <<>>)
    ELSE _parse_loe_worksheet(file.worksheet, mapping)

\* a Word document of the model holds one table and no paragraph
parse_sow_document(file) ==
    IF file.suffix = ".docx" THEN Outcome("", _extract_tasks_from_table(file.table))
    ELSE IF file.suffix = ".pdf" THEN Outcome("", _extract_tasks_from_pdf_table(file.table))
    ELSE Outcome("ValueError: Unsupported document format", <<>>)

-----------------------------------------------------------------------------
(* routers.validation: POST /validate *)

MaxSheetRows == 2

\* the uploads: a Word document with a scope table, or with a table that is
\* none, and a workbook with one sheet: empty rows, then at most n rows out
\* of header rows and estimate rows.  Reading a row after the last one gives
\* a row without cells or raises IndexError, as the workbook library decides
Registries(n) ==
    LET empty == [kind |-> "none", text |-> "", number |-> RZero]
        str(t) == [kind |-> "str", text |-> t, number |-> RZero]
        num(t, x) == [kind |-> "num", text |-> t, number |-> x]
        kinds == { <<str("Task"), str("Days"), str("Total")>>,
                   <<str(" Task "), str("Effort")>>,
                   <<str("Install HA cluster"), num("10", Int2Rat(10)), empty>>,
                   <<str("Travel"), num("0.5", Rat(1, 2)), num("0", RZero)>> }
    IN  {[id \in {"sow", "loe"} |->
            IF id = "sow"
            THEN [suffix |-> ".docx",
                  table |-> <<h, <<"General", "Install HA cluster",
                        "deploy stretched cluster with high availability", "">> >>,
                  worksheet |-> None]
            ELSE [suffix |-> ".xlsx", table |-> None,
                  worksheet |->
                    [rows |-> [k \in 1..pad |-> <<empty, empty, empty>>] \o tail,
                     past_end |-> past_end]]] :
            h \in { <<"Phase", "Task", "Description", "Owner">>, <<"Item", "Qty">> },
            pad \in {0, HeaderSearchRows - 1, HeaderSearchRows},
            tail \in SeqsUpTo(kinds, n),
            past_end \in {"empty", "IndexError"}}

\* the requests: each file id names an upload or nothing; the columns are
\* given by name or as "Column N"
Requests ==
    [sow_file_id : {"sow", "loe", "gone"},
     loe_file_id : {"sow", "loe", "gone"},
     column_mapping :
        { [task |-> "task", days |-> "Days", phase |-> NoneStr, risk |-> NoneStr,
           total |-> "Total"],
          [task |-> "Task", days |-> "Hours", phase |-> NoneStr, risk |-> NoneStr,
           total |-> NoneStr],
          [task |-> "column 1", days |-> "Column  2", phase |-> NoneStr,
           risk |-> NoneStr, total |-> "Column 3"],
          [task |-> "Column 1", days |-> "Column 3", phase |-> NoneStr,
           risk |-> NoneStr, total |-> NoneStr] }]

\* raise HTTPException(status_code, detail), or the 200 of a returned result
Respond(status_code, detail) ==
    /\ response' = [status_code |-> status_code, detail |-> detail]
    /\ handler' = "responded"

InitRequest ==
    /\ EngineIdle
    /\ fuzz \in FuzzChoices({<<50, 70, 69>>})
    /\ doc_table = None
    /\ table_tasks = None
    /\ file_registry \in Registries(MaxSheetRows)
    /\ request \in Requests
    /\ handler = "lookup"
    /\ parsed = [sow_tasks |-> <<>>, loe_entries |-> <<>>]
    /\ response = None
    /\ uuids = {<<"sow", TRUE>>, <<"loe", TRUE>>}

\* the two lookups in _file_registry
Lookup ==
    /\ handler = "lookup"
    /\ IF request.sow_file_id \notin DOMAIN file_registry
       THEN Respond(404, "SOW file not found")
       ELSE IF request.loe_file_id \notin DOMAIN file_registry
            THEN Respond(404, "LOE file not found")
       ELSE handler' = "parse_sow" /\ UNCHANGED response
    /\ UNCHANGED <<engine, doc_table, table_tasks, file_registry, request, parsed, uuids>>

\* what the handler does with the outcome of a collaborator: 400 on an
\* exception and on an empty list, the next step otherwise
Proceed(outcome, failed, empty, local, next) ==
    IF outcome.raised # ""
    THEN Respond(400, failed \o outcome.raised) /\ UNCHANGED parsed
    ELSE IF outcome.records = <<>>
         THEN Respond(400, empty) /\ UNCHANGED parsed
    ELSE /\ parsed' = [parsed EXCEPT ![local] = outcome.records]
         /\ handler' = next
         /\ UNCHANGED response

\* sow_tasks = parser.parse_sow_document(sow_path)
ParseSow ==
    /\ handler = "parse_sow"
    /\ Proceed(parse_sow_document(file_registry[request.sow_file_id]),
               "Failed to parse SOW document: ",
               "No tasks found in SOW document. Ensure the document contains a scope table.",
               "sow_tasks", "parse_loe")
    /\ UNCHANGED <<engine, doc_table, table_tasks, file_registry, request, uuids>>

\* loe_entries = parser.parse_loe_excel(loe_path, request.column_mapping, ...)
ParseLoe ==
    /\ handler = "parse_loe"
    /\ Proceed(parse_loe_excel(file_registry[request.loe_file_id],
                               request.column_mapping),
               "Failed to parse LOE Excel: ",
               "No entries found in LOE Excel. Check column mapping configuration.",
               "loe_entries", "validate")
    /\ UNCHANGED <<engine, doc_table, table_tasks, file_registry, request, uuids>>

\* validator.validate(sow_tasks=sow_tasks, loe_entries=loe_entries, ...) is
\* called: call 1 of the engine starts
CallValidate ==
    /\ handler = "validate"
    /\ pc[1] = "idle"
    /\ pc' = [pc EXCEPT ![1] = "match"]
    /\ sow_tasks' = [sow_tasks EXCEPT ![1] = parsed.sow_tasks]
    /\ loe_entries' = [loe_entries EXCEPT ![1] = parsed.loe_entries]
    /\ handler' = "running"
    /\ UNCHANGED <<complexity_keywords, match_threshold, fuzz, clock,
                   used_loe_indices, task_matches, orphaned, cursor, result>>
    /\ UNCHANGED <<doc_table, table_tasks, file_registry, request, parsed, response, uuids>>

\* return result
Return ==
    /\ handler = "running"
    /\ pc[1] = "done"
    /\ Respond(200, "")
    /\ UNCHANGED <<engine, doc_table, table_tasks, file_registry, request, parsed, uuids>>

NextRequest ==
    \/ Lookup
    \/ ParseSow
    \/ ParseLoe
    \/ CallValidate
    \/ Return
    \/ Next

SpecRequest == InitRequest /\ [][NextRequest]_vars

-----------------------------------------------------------------------------
\* the request names a workbook as its estimate file, and the handler has
\* come to the parsing of it or further
AtWorkbook ==
    /\ request.loe_file_id \in DOMAIN file_registry
    /\ file_registry[request.loe_file_id].suffix = ".xlsx"
    /\ \/ handler \in {"parse_loe", "validate", "running"}
       \/ handler = "responded" /\ parsed.sow_tasks # <<>>

\* column_name resolves in the texts of a row: "Column N" by position, any
\* other name as the text of a cell, letter case and outer blanks aside
Resolves(texts, column_name) ==
    IF IndexReference(Strip(column_name)) >= 0
    THEN IndexReference(Strip(column_name)) \in 1..Len(texts)
    ELSE \E i \in 1..Len(texts) :
            LowerText(Strip(texts[i])) = LowerText(Strip(column_name))

\* the rows among the first 10 of the sheet that can be the header row: with
\* a task column "Column N" a row that is not empty, else a row in which the
\* task column resolves
HeaderRowsOf(worksheet, mapping) ==
    {r \in 1..HeaderSearchRows :
        /\ r <= Len(worksheet.rows)
        /\ IF IndexReference(Strip(mapping["task"])) >= 0
           THEN \E i \in 1..Len(worksheet.rows[r]) : RowValues(worksheet, r)[i] # ""
           ELSE Resolves(RowValues(worksheet, r), mapping["task"])}

\* no header row in the first 10 rows, or the task or the days column does
\* not resolve in the first of them
Unresolved(worksheet, mapping) ==
    \/ HeaderRowsOf(worksheet, mapping) = {}
    \/ \E r \in HeaderRowsOf(worksheet, mapping) :
        /\ \A o \in HeaderRowsOf(worksheet, mapping) : r <= o
        /\ \/ ~Resolves(RowValues(worksheet, r), mapping["task"])
           \/ ~Resolves(RowValues(worksheet, r), mapping["days"])

\* the answers of /validate to an exception of the estimate parser
ParserFailures ==
    {[status_code |-> 400, detail |-> "Failed to parse LOE Excel: " \o raised] :
        raised \in {"ValueError: Could not find header row",
                    "ValueError: Required task column not found",
                    "ValueError: Required days column not found", "IndexError"}}

(* C18: the estimate parser raises whenever no header row is found in the  *)
(* first 10 rows of the sheet or the task or days column does not resolve  *)
(* in the header row; /validate then answers 400 and validate is never     *)
(* invoked for the request.                                                *)
C18_ParserFailsFirst ==
    AtWorkbook /\ Unresolved(file_registry[request.loe_file_id].worksheet,
                             request.column_mapping)
        => /\ parse_loe_excel(file_registry[request.loe_file_id],
                              request.column_mapping).raised # ""
           /\ handler \in {"parse_loe", "responded"}
           /\ handler = "responded" => response \in ParserFailures
           /\ pc[1] = "idle"
           /\ result[1] = None

\* the header row is the 11th row of the sheet: the parser found no header
\* row and the request was answered 400
C18_Witness ==
    /\ AtWorkbook
    /\ handler = "responded"
    /\ Len(file_registry["loe"].worksheet.rows) = HeaderSearchRows + 2
    /\ request.column_mapping["task"] = "task"
    /\ RowValues(file_registry["loe"].worksheet, HeaderSearchRows + 1)
         = <<"Task", "Days", "Total">>
    /\ response = [status_code |-> 400,
                   detail |-> "Failed to parse LOE Excel: ValueError: Could not find header row"]
    /\ pc[1] = "idle"

\* a request whose sheet has its header and columns in place reaches validate
ReachesValidate ==
    (/\ AtWorkbook
     /\ handler = "responded"
     /\ ~Unresolved(file_registry[request.loe_file_id].worksheet,
                    request.column_mapping))
        => /\ response.status_code \in {200, 400}
           /\ response \notin ParserFailures

-----------------------------------------------------------------------------
\* the duration loop of call c has passed the k-th TaskMatch
Judged(c, k) == Done(c) \/ (pc[c] = "duration" /\ k < cursor[c])

\* the middle of the expected range of an analysis
MidOf(a) == RMul(RAdd(a.expected_days_min, a.expected_days_max), <<1, 2>>)

\* (actual - expected_mid) / expected_mid x 100
VarianceOf(actual, mid) == RMul(RDiv(RSub(actual, mid), mid), <<100, 1>>)

(* C21: the actual effort of an entry, as used for duration validation and *)
(* for the total_loe_days sums, is total_days whenever total_days is       *)
(* present (also when it is 0) and days only when it is absent: it is the  *)
(* entry's effective_days.                                                 *)
C21_ActualEffort ==
    \A c \in Running :
        /\ \A k \in Items(c) :
            \A m \in {task_matches[c][k]} :
                Judged(c, k) /\ HasEntry(m) =>
                    m.duration_variance
                        = VarianceOf(IF m.loe_entry.total_days # None
                                     THEN m.loe_entry.total_days
                                     ELSE m.loe_entry.days,
                                     MidOf(m.complexity_analysis))
        /\ Done(c) => result[c].total_loe_days = EffectiveSum(loe_entries[c])

\* the same with the effort taken as the code takes it: days also when
\* total_days is present and 0
EffortAsComputed ==
    \A c \in Running :
        \A k \in Items(c) :
            \A m \in {task_matches[c][k]} :
                Judged(c, k) /\ HasEntry(m) =>
                    m.duration_variance
                        = VarianceOf(IF m.loe_entry.total_days \notin {None, RZero}
                                     THEN m.loe_entry.total_days
                                     ELSE m.loe_entry.days,
                                     MidOf(m.complexity_analysis))


\* a matched entry whose total_days is present and 0 has been judged
ZeroTotalJudged ==
    \E k \in Items(1) :
        /\ Judged(1, k)
        /\ HasEntry(task_matches[1][k])
        /\ task_matches[1][k].loe_entry.total_days = RZero

-----------------------------------------------------------------------------
(* The engine on one scope item and one estimate entry, the item drawn     *)
(* from texts that name several task types and several keywords of one     *)
(* category, the engine built with the default taxonomy or with a custom   *)
(* one                                                                     *)

\* a taxonomy passed to the constructor: the default one with migration
\* work priced at 0 days
CustomKeywords ==
    [DEFAULT_COMPLEXITY_KEYWORDS EXCEPT
        !.task_type_base_days[4] = <<"migration", RZero>>]

AnalyzePool ==
    { [phase |-> "General", task |-> "Install HA cluster",
       description |-> "deploy stretched cluster with high availability",
       owner |-> "TeraSky"],
      [phase |-> "Migration", task |-> "Data migration",
       description |-> "Data migration with encryption", owner |-> "TeraSky"],
      [phase |-> "General", task |-> "API integration",
       description |-> "third-party API integration testing", owner |-> "TeraSky"],
      [phase |-> "General", task |-> "Testing and integration",
       description |-> "validation of the deployment", owner |-> "TeraSky"],
      [phase |-> "General", task |-> "Workshop",
       description |-> "Kickoff workshop", owner |-> "TeraSky"],
      [phase |-> "General", task |-> "Documentation",
       description |-> "Documentation", owner |-> "TeraSky"],
      [phase |-> "General", task |-> "Security hardening",
       description |-> "PCI-DSS compliance and hardening", owner |-> "TeraSky"],
      [phase |-> "General", task |-> "Enterprise SSO",
       description |-> "SAML single sign-on for 5000+ users", owner |-> "TeraSky"] }

\* one item of AnalyzePool and one entry, named as the item or "Travel", of
\* 0.5, 3 or 10 days; two different texts score 0 on the three measures
InitAnalyze ==
    /\ \E keywords \in {None, CustomKeywords} :
        /\ complexity_keywords = ValidatorService(keywords).complexity_keywords
        /\ match_threshold = ValidatorService(keywords).match_threshold
    /\ \E s \in AnalyzePool :
        /\ sow_tasks = [c \in Calls |-> IF c = 1 THEN SowList(<<s>>) ELSE <<>>]
        /\ \E task \in {s.task, "Travel"}, days \in {Rat(1, 2), Int2Rat(3), Int2Rat(10)} :
            loe_entries =
                [c \in Calls |->
                    IF c = 1
                    THEN <<LOEEntry(1, task, NoneStr, days, None, None)>>
                    ELSE <<>>]
    /\ fuzz = [ratio |->
                [key \in {<<LowerText(s.task), "travel">> : s \in AnalyzePool} |-> 0],
               partial_ratio |->
                [key \in {<<LowerText(s.task), "travel">> : s \in AnalyzePool} |-> 0],
               token_sort_ratio |->
                [key \in {<<LowerText(Join(s.task, s.description)), LowerText(task)>> :
                            s \in AnalyzePool,
                            task \in {t.task : t \in AnalyzePool} \cup {"Travel"}}
                    |-> 0]]
    /\ clock = 0
    /\ pc = [c \in Calls |-> IF c = 1 THEN "match" ELSE "idle"]
    /\ used_loe_indices = [c \in Calls |-> {}]
    /\ task_matches = [c \in Calls |-> <<>>]
    /\ orphaned = [c \in Calls |-> <<>>]
    /\ cursor = [c \in Calls |-> 1]
    /\ result = [c \in Calls |-> None]
    /\ NoRequest

SpecAnalyze == InitAnalyze /\ [][Next]_vars

-----------------------------------------------------------------------------
(* C22: every matched pair is classified: an effort below half of          *)
(* expected_days_min makes duration_valid false and appends one            *)
(* under-estimation message to issues, warnings untouched; otherwise an    *)
(* effort above 1.5 times expected_days_max makes duration_valid false and *)
(* appends one over-estimation message to warnings, issues untouched;      *)
(* otherwise duration_valid stays true and both lists stay empty.  This    *)
(* holds also when expected_mid is 0, and a TaskMatch without an entry     *)
(* has duration_valid true.  The effort is the one the duration step       *)
(* reads, MatchDays.                                                       *)

IsUnder(actual, a) == RLt(actual, RMul(a.expected_days_min, <<1, 2>>))
IsOver(actual, a) == RGt(actual, RMul(a.expected_days_max, <<3, 2>>))

ClassifiedAs(m, actual, a) ==
    IF IsUnder(actual, a)
    THEN /\ ~m.duration_valid
         /\ Len(m.issues) = 1
         /\ m.issues[1][1] = "Duration significantly under-estimated"
         /\ m.warnings = <<>>
    ELSE IF IsOver(actual, a)
    THEN /\ ~m.duration_valid
         /\ Len(m.warnings) = 1
         /\ m.warnings[1][1] = "Duration may be over-estimated"
         /\ m.issues = <<>>
    ELSE /\ m.duration_valid
         /\ m.issues = <<>>
         /\ m.warnings = <<>>

C22_Classification == \A c \in Running :
    \A k \in Items(c) : \A m \in {task_matches[c][k]} :
        /\ HasEntry(m) /\ Judged(c, k) =>
              /\ HasAnalysis(m)
              /\ ClassifiedAs(m, MatchDays(m), m.complexity_analysis)
        /\ ~HasEntry(m) => m.duration_valid

\* what the code does: the classification is made only when expected_mid > 0
ClassifiedWhenPositive == \A c \in Running :
    \A k \in Items(c) : \A m \in {task_matches[c][k]} :
        /\ HasEntry(m) /\ Judged(c, k) =>
              /\ HasAnalysis(m)
              /\ IF RGt(MidOf(m.complexity_analysis), RZero)
                 THEN ClassifiedAs(m, MatchDays(m), m.complexity_analysis)
                 ELSE m.duration_valid /\ m.issues = <<>> /\ m.warnings = <<>>
        /\ ~HasEntry(m) => m.duration_valid

\* a pair judged with an expected_mid of 0
ZeroMidJudged ==
    \E k \in Items(1) :
        /\ Judged(1, k)
        /\ HasEntry(task_matches[1][k])
        /\ MidOf(task_matches[1][k].complexity_analysis) = RZero

-----------------------------------------------------------------------------
(* C23: after the duration step has handled a TaskMatch, duration_variance *)
(* is present exactly when the match has an entry and expected_mid > 0,    *)
(* and is then (actual - expected_mid) / expected_mid x 100 whether or not *)
(* the duration is judged valid; a TaskMatch without an entry is left as   *)
(* the matcher made it: no complexity_analysis, no duration_variance,      *)
(* duration_valid true, empty issues and warnings.                         *)

VarianceAsStated(m) ==
    IF HasEntry(m)
    THEN /\ HasAnalysis(m)
         /\ IF RGt(MidOf(m.complexity_analysis), RZero)
            THEN m.duration_variance =
                    VarianceOf(MatchDays(m), MidOf(m.complexity_analysis))
            ELSE m.duration_variance = None
    ELSE m = TaskMatch(m.sow_task, None, m.match_status, m.match_score)

C23_Variance == \A c \in Running :
    \A k \in Items(c) :
        /\ Judged(c, k) => VarianceAsStated(task_matches[c][k])
        /\ ~Judged(c, k) => task_matches[c][k].duration_variance = None

\* a pair judged invalid whose variance is recorded
C23_Witness ==
    \E k \in Items(1) :
        /\ Judged(1, k)
        /\ HasEntry(task_matches[1][k])
        /\ ~task_matches[1][k].duration_valid
        /\ task_matches[1][k].duration_variance # None

-----------------------------------------------------------------------------
(* C24: the detected task type of an analysis is the first task type, in   *)
(* the taxonomy's declared order, whose full name is a substring of the    *)
(* lower-cased "task description" text, with that type's base_days; when   *)
(* no task type name occurs, detected_task_type is none and base_days 1.5. *)

TextOf(m) == LowerText(Join(m.sow_task.task, m.sow_task.description))

TypesPresent(types, text) == {k \in 1..Len(types) : Occurs(types[k][1], text)}

SetMin(S) == CHOOSE x \in S : \A y \in S : x <= y

TypeAsStated(a, types, present) ==
    IF present = {}
    THEN a.detected_task_type = NoneStr /\ a.base_days = <<3, 2>>
    ELSE /\ a.detected_task_type = types[SetMin(present)][1]
         /\ a.base_days = types[SetMin(present)][2]

C24_TypeDetection == \A c \in Running :
    \A k \in Items(c) : \A m \in {task_matches[c][k]} :
        HasAnalysis(m) =>
            TypeAsStated(m.complexity_analysis,
                         complexity_keywords.task_type_base_days,
                         TypesPresent(complexity_keywords.task_type_base_days,
                                      TextOf(m)))

\* an analysis of a text naming two task types, the one declared first
\* standing later in the text
C24_Witness ==
    \E k \in Items(1) : \A m \in {task_matches[1][k]} :
        /\ HasAnalysis(m)
        /\ m.sow_task.task = "Testing and integration"
        /\ m.complexity_analysis.detected_task_type = "integration"
        /\ Occurs("testing", TextOf(m))

-----------------------------------------------------------------------------
(* C25: the factor list of an analysis holds one factor for each category  *)
(* that has a keyword occurring in the text, in the categories' declared   *)
(* order, and the factor of a category names the first keyword, in the     *)
(* category's declared order, that occurs in the text.                     *)

KeywordsPresent(category, text) ==
    {k \in 1..Len(category.keywords) : Occurs(category.keywords[k][1], text)}

CategoriesPresent(categories, text) ==
    SelectSeq(categories, LAMBDA category : KeywordsPresent(category, text) # {})

FactorsAsStated(factors, present, text) ==
    /\ Len(factors) = Len(present)
    /\ \A i \in 1..Len(present) :
        /\ factors[i].category = present[i].name
        /\ factors[i].keyword =
              present[i].keywords[SetMin(KeywordsPresent(present[i], text))][1]

-----------------------------------------------------------------------------
(* C26: with the default taxonomy the factor of a category carries the     *)
(* greatest multiplier among the category's keywords that occur in the     *)
(* text.                                                                   *)

CategoryNamed(categories, name) ==
    categories[CHOOSE i \in 1..Len(categories) : categories[i].name = name]

GreatestPresent(category, text) ==
    CHOOSE x \in {category.keywords[k][2] : k \in KeywordsPresent(category, text)} :
        \A k \in KeywordsPresent(category, text) : RLe(category.keywords[k][2], x)

C26_MaxMultiplier == \A c \in Running :
    complexity_keywords = DEFAULT_COMPLEXITY_KEYWORDS =>
        \A k \in Items(c) : \A m \in {task_matches[c][k]} :
            HasAnalysis(m) =>
                \A i \in 1..Len(m.complexity_analysis.complexity_factors) :
                    \A f \in {m.complexity_analysis.complexity_factors[i]} :
                        f.multiplier =
                            GreatestPresent(
                                CategoryNamed(complexity_keywords.categories,
                                              f.category),
                                TextOf(m))

\* what the code does: the factor carries the multiplier of its own keyword
MultiplierOfFirst == \A c \in Running :
    \A k \in Items(c) : \A m \in {task_matches[c][k]} :
        HasAnalysis(m) =>
            \A i \in 1..Len(m.complexity_analysis.complexity_factors) :
                \A f \in {m.complexity_analysis.complexity_factors[i]} :
                    \E j \in KeywordsPresent(
                                CategoryNamed(complexity_keywords.categories,
                                              f.category), TextOf(m)) :
                        /\ CategoryNamed(complexity_keywords.categories,
                                         f.category).keywords[j] =
                              <<f.keyword, f.multiplier>>
                        /\ \A h \in KeywordsPresent(
                                CategoryNamed(complexity_keywords.categories,
                                              f.category), TextOf(m)) : j <= h

-----------------------------------------------------------------------------
(* C27: the recommendations of a result are, in this order and each at     *)
(* most once, the add-coverage message iff unmatched_count > 0, the        *)
(* review-under-estimates message iff some TaskMatch has a                 *)
(* duration_variance below -30, the review-over-estimates message iff some *)
(* TaskMatch has a duration_variance above 50, the clarify-orphans message *)
(* iff the orphan list is non-empty, and nothing else.                     *)

VarianceBelow(m, bound) ==
    m.duration_variance # None /\ RLt(m.duration_variance, Int2Rat(bound))
VarianceAbove(m, bound) ==
    m.duration_variance # None /\ RGt(m.duration_variance, Int2Rat(bound))

When(condition, message) == IF condition THEN <<message>> ELSE <<>>

RecommendationsAsStated(r) ==
    r.recommendations =
        When(r.unmatched_sow_tasks > 0, "Add LOE entries for unmatched SOW tasks")
        \o When(\E k \in 1..Len(r.task_matches) :
                    VarianceBelow(r.task_matches[k], -30),
                "Review under-estimated tasks")
        \o When(\E k \in 1..Len(r.task_matches) :
                    VarianceAbove(r.task_matches[k], 50),
                "Review over-estimated tasks")
        \o When(r.orphaned_entries # <<>>, "Clarify orphaned LOE entries")

C27_Recommendations == \A c \in Running :
    Done(c) => RecommendationsAsStated(result[c])

\* a result with three of the messages, one of them for a variance above 50
\* on a duration judged valid
C27_Witness ==
    /\ Done(1)
    /\ Len(result[1].recommendations) >= 3
    /\ \E k \in 1..Len(result[1].task_matches) :
        /\ VarianceAbove(result[1].task_matches[k], 50)
        /\ result[1].task_matches[k].duration_valid

-----------------------------------------------------------------------------
(* C28: with the default taxonomy a TaskMatch judged under-estimated has a *)
(* duration_variance below -30 and one judged over-estimated has a         *)
(* duration_variance above 50, so a result with the duration warning       *)
(* carries the review-under-estimates or the review-over-estimates         *)
(* recommendation.                                                         *)

Holds(messages, text) == \E i \in 1..Len(messages) : messages[i] = text

HasDurationWarning(r) ==
    \E i \in 1..Len(r.warnings) : r.warnings[i][2] = "task(s) have duration concerns"

C28_InvalidIsReviewed == \A c \in Running :
    complexity_keywords = DEFAULT_COMPLEXITY_KEYWORDS =>
        /\ \A k \in Items(c) : \A m \in {task_matches[c][k]} :
              ~m.duration_valid =>
                  /\ m.issues # <<>> => VarianceBelow(m, -30)
                  /\ m.warnings # <<>> => VarianceAbove(m, 50)
                  /\ m.issues # <<>> \/ m.warnings # <<>>
        /\ Done(c) =>
              /\ HasDurationWarning(result[c]) <=>
                    \E k \in Items(c) : ~task_matches[c][k].duration_valid
              /\ \A k \in Items(c) : \A m \in {task_matches[c][k]} :
                    /\ ~m.duration_valid /\ m.issues # <<>> =>
                          Holds(result[c].recommendations,
                                "Review under-estimated tasks")
                    /\ ~m.duration_valid /\ m.warnings # <<>> =>
                          Holds(result[c].recommendations,
                                "Review over-estimated tasks")

\* a result with one match judged under-estimated and one judged
\* over-estimated
C28_Witness ==
    /\ Done(1)
    /\ HasDurationWarning(result[1])
    /\ \E k \in Items(1) : task_matches[1][k].issues # <<>>
    /\ \E k \in Items(1) : task_matches[1][k].warnings # <<>>

-----------------------------------------------------------------------------
(* The engine with match_threshold assigned after construction: a value    *)
(* not above 0, the default, and a value above the exact-match score       *)

ThresholdTriples == {<<0, 0, 0>>, <<50, 70, 69>>, <<69, 70, 95>>}

InitThreshold ==
    /\ complexity_keywords = ValidatorService(None).complexity_keywords
    /\ match_threshold \in {-1, 0, ValidatorService(None).match_threshold, 96}
    /\ fuzz \in FuzzChoices(ThresholdTriples)
    /\ clock = 0
    /\ pc = [c \in Calls |-> IF c = 1 THEN "match" ELSE "idle"]
    /\ sow_tasks \in [Calls -> ConcSowLists]
    /\ loe_entries \in [Calls -> ConcLoeLists]
    /\ sow_tasks[2] = <<>> /\ loe_entries[2] = <<>>
    /\ used_loe_indices = [c \in Calls |-> {}]
    /\ task_matches = [c \in Calls |-> <<>>]
    /\ orphaned = [c \in Calls |-> <<>>]
    /\ cursor = [c \in Calls |-> 1]
    /\ result = [c \in Calls |-> None]
    /\ NoRequest

SpecThreshold == InitThreshold /\ [][Next]_vars

-----------------------------------------------------------------------------
(* C29: for every value of match_threshold, a TaskMatch made by            *)
(* _match_tasks has an entry attached exactly when its status is exact or  *)
(* fuzzy, every consumed position is a position of the entry list, and no  *)
(* scope item whose best score is below the threshold is matched.          *)

BestScoreOf(c, k) == TopScore(c, sow_tasks[c][k], UsedBefore(c, k))

MatchingAsStated(c) ==
    /\ \A k \in Items(c) :
          HasEntry(task_matches[c][k]) <=>
              task_matches[c][k].match_status \in {EXACT, FUZZY}
    /\ used_loe_indices[c] \subseteq {p - 1 : p \in Positions(c)}
    /\ \A k \in Items(c) :
          BestScoreOf(c, k) < match_threshold =>
              task_matches[c][k].match_status = UNMATCHED

C29_AnyThreshold == \A c \in Running : MatchingAsStated(c)

\* the statement for the thresholds between 1 and the exact-match score
ThresholdInRange == \A c \in Running :
    match_threshold \in 1..ExactScore => MatchingAsStated(c)

\* a scope item taken up with a threshold of 0 and no entry scoring above 0
ZeroThresholdMatched ==
    /\ match_threshold = 0
    /\ \E k \in Items(1) : BestScoreOf(1, k) = 0

-----------------------------------------------------------------------------
(* routers/validation.py: the file registry under upload, preview,         *)
(* validate and delete requests.  The handlers are coroutines without an   *)
(* await between their reads and writes of _file_registry, so each runs    *)
(* to its response before the next request is taken; validate_sow_loe runs *)
(* as the steps Lookup .. Return.                                          *)

MaxUploads == 3

\* the identifiers uuid.uuid4() can return
FileIds == 1..MaxUploads

\* the file saved under UPLOAD_DIR for an upload with the given suffix
Stored(suffix) ==
    IF suffix = ".docx"
    THEN [suffix |-> ".docx",
          table |-> << <<"Phase", "Task", "Description", "Owner">>,
                       <<"General", "Install HA cluster",
                         "deploy stretched cluster with high availability", "">> >>,
          worksheet |-> None]
    ELSE [suffix |-> suffix, table |-> None,
          worksheet |->
            [rows |-> << <<[kind |-> "str", text |-> "Task", number |-> RZero],
                           [kind |-> "str", text |-> "Days", number |-> RZero],
                           [kind |-> "str", text |-> "Total", number |-> RZero]>>,
                         <<[kind |-> "str", text |-> "Install HA cluster",
                            number |-> RZero],
                           [kind |-> "num", text |-> "10", number |-> Int2Rat(10)],
                           [kind |-> "none", text |-> "", number |-> RZero]>> >>,
             past_end |-> "empty"]]

InitRegistry ==
    /\ EngineIdle
    /\ fuzz \in FuzzChoices({<<50, 70, 69>>})
    /\ doc_table = None
    /\ table_tasks = None
    /\ file_registry = <<>>
    /\ request = None
    /\ handler = "idle"
    /\ parsed = [sow_tasks |-> <<>>, loe_entries |-> <<>>]
    /\ response = None
    /\ uuids = {}

\* no request is being served
Listening == handler \in {"idle", "responded"}

\* upload_file: the suffix test, a fresh id, the save, the registration
UploadFile ==
    /\ Listening
    /\ \E suffix \in {".docx", ".xlsx", ".txt"} :
        /\ request' = [op |-> "upload", suffix |-> suffix]
        /\ IF suffix \notin {".docx", ".pdf", ".xlsx", ".xls"}
           THEN /\ Respond(400, "Unsupported file type")
                /\ UNCHANGED <<file_registry, uuids>>
           ELSE \E file_id \in FileIds \ {u[1] : u \in uuids}, saved \in BOOLEAN :
                /\ uuids' = uuids \cup {<<file_id, saved>>}
                /\ IF saved
                   THEN /\ file_registry' =
                            [id \in DOMAIN file_registry \cup {file_id} |->
                                IF id = file_id THEN Stored(suffix)
                                ELSE file_registry[id]]
                        /\ Respond(200, "")
                   ELSE /\ Respond(500, "Failed to save file")
                        /\ UNCHANGED file_registry
    /\ UNCHANGED <<engine, doc_table, table_tasks, parsed>>

\* preview_excel
PreviewExcel ==
    /\ Listening
    /\ \E file_id \in FileIds :
        /\ request' = [op |-> "preview", file_id |-> file_id]
        /\ IF file_id \notin DOMAIN file_registry
           THEN Respond(404, "File not found")
           ELSE IF file_registry[file_id].suffix \notin {".xlsx", ".xls"}
                THEN Respond(400, "Not an Excel file")
           ELSE \/ Respond(200, "")
                \/ Respond(500, "Failed to preview Excel file")
    /\ UNCHANGED <<engine, doc_table, table_tasks, file_registry, parsed, uuids>>

\* validate_sow_loe is entered with a ValidationRequest; call 1 is the one
\* engine call of a behaviour, so a request that would start a second call
\* is not taken
ValidateSowLoe ==
    /\ Listening
    /\ \E sow_file_id \in FileIds, loe_file_id \in FileIds :
        /\ \/ pc[1] = "idle"
           \/ sow_file_id \notin DOMAIN file_registry
           \/ loe_file_id \notin DOMAIN file_registry
        /\ request' = [op |-> "validate", sow_file_id |-> sow_file_id,
                       loe_file_id |-> loe_file_id,
                       column_mapping |->
                          [task |-> "task", days |-> "Days", phase |-> NoneStr,
                           risk |-> NoneStr, total |-> "Total"]]
    /\ handler' = "lookup"
    /\ parsed' = [sow_tasks |-> <<>>, loe_entries |-> <<>>]
    /\ UNCHANGED <<engine, doc_table, table_tasks, file_registry, response, uuids>>

\* DeleteFile with "del _file_registry[file_id]" left out
DeleteFileKeepingEntry ==
    /\ Listening
    /\ \E file_id \in FileIds :
        /\ request' = [op |-> "delete", file_id |-> file_id]
        /\ IF file_id \notin DOMAIN file_registry
           THEN Respond(404, "File not found")
           ELSE Respond(200, "deleted")
        /\ UNCHANGED file_registry
    /\ UNCHANGED <<engine, doc_table, table_tasks, parsed, uuids>>

\* delete_file
DeleteFile ==
    /\ Listening
    /\ \E file_id \in FileIds :
        /\ request' = [op |-> "delete", file_id |-> file_id]
        /\ IF file_id \notin DOMAIN file_registry
           THEN Respond(404, "File not found") /\ UNCHANGED file_registry
           ELSE /\ file_registry' =
                    [id \in DOMAIN file_registry \ {file_id} |-> file_registry[id]]
                /\ Respond(200, "deleted")
    /\ UNCHANGED <<engine, doc_table, table_tasks, parsed, uuids>>

NextRegistry ==
    \/ UploadFile
    \/ PreviewExcel
    \/ DeleteFile
    \/ ValidateSowLoe
    \/ Lookup
    \/ ParseSow
    \/ ParseLoe
    \/ CallValidate
    \/ Return
    \/ Next

SpecRegistry == InitRegistry /\ [][NextRegistry]_vars

-----------------------------------------------------------------------------
(* C30: a preview, validate or delete request naming a file id that is not *)
(* in the registry is answered 404 and leaves the registry unchanged, the  *)
(* validate handler making both lookups before it parses or validates      *)
(* anything; after a delete has succeeded its id is absent from the        *)
(* registry and, upload taking a fresh id each time, stays absent, so      *)
(* every later preview, validate or delete with that id is answered 404.   *)

Registered == DOMAIN file_registry

\* the ids that were registered and are no longer: the deleted ones
Deleted == {u[1] : u \in {v \in uuids : v[2]}} \ Registered

\* the ids a request names
IdsOf(r) ==
    IF r = None \/ r.op = "upload" THEN {}
    ELSE IF r.op = "validate" THEN {r.sow_file_id, r.loe_file_id}
    ELSE {r.file_id}

\* a step that answers a preview or a delete request
AnswersFileRequest ==
    /\ Listening
    /\ handler' = "responded"
    /\ request' # None
    /\ request'.op \in {"preview", "delete"}

\* a step in which the validate handler looks its two ids up
LooksUp == handler = "lookup" /\ handler' # "lookup"

UnknownIdIs404 ==
    /\ AnswersFileRequest /\ request'.file_id \notin Registered =>
          response'.status_code = 404 /\ file_registry' = file_registry
    /\ LooksUp /\ ~(IdsOf(request) \subseteq Registered) =>
          /\ response'.status_code = 404
          /\ handler' = "responded"
          /\ file_registry' = file_registry

DeleteRemoves ==
    AnswersFileRequest /\ request'.op = "delete" /\ response'.status_code = 200 =>
        /\ request'.file_id \in Registered
        /\ request'.file_id \notin DOMAIN file_registry'

DeletedStaysAbsent == \A id \in Deleted : id \notin DOMAIN file_registry'

\* parsing and validation only with both files registered
ParsesRegistered ==
    handler \in {"parse_sow", "parse_loe", "validate", "running"} =>
        IdsOf(request) \subseteq Registered

C30_RegistryProtocol ==
    /\ []ParsesRegistered
    /\ [][UnknownIdIs404 /\ DeleteRemoves /\ DeletedStaysAbsent]_vars

\* a request answered 404 for an id that was deleted before
C30_Witness ==
    /\ handler = "responded"
    /\ response.status_code = 404
    /\ IdsOf(request) \cap Deleted # {}

====
